---------------------------- MODULE Spec2Model ----------------------------
(***************************************************************************)
(* State-machine model of the location-based AR coin game:                 *)
(*   App (src/src/App.js), CoinMap (src/unnamed/part_000) and the AR view  *)
(*   components of src/src/Components: PokemonGoStyleAR and the two ARView *)
(*   copies of ARView.jsx, View.jsx and the ARView of UpdateView.jsx.      *)
(*                                                                         *)
(* Conventions                                                             *)
(*  - Geographic coordinates are integers on a local grid whose unit is    *)
(*    the angle that subtends one metre; latitude grows to the north and   *)
(*    longitude to the east.  Coin 1 of COINS is the grid origin.          *)
(*  - Angles are whole degrees.  Floating point results are rounded to     *)
(*    the grid (floor).                                                    *)
(*  - A JavaScript number is [num |-> n]; null is NULL.                    *)
(*  - A React state update, the render it causes and the effects of that   *)
(*    render are one step with the handler that made the update.           *)
(*    Promise resolutions, loader callbacks, sensor callbacks, animation   *)
(*    frames and user input are separate steps.                            *)
(***************************************************************************)
EXTENDS Integers, Sequences, FiniteSets, TLC

VARIABLES
    mode,                 \* App: 'map' | 'ar'
    selectedCoin,         \* App: coin handed to the AR view, or NULL
    mapUserLocation,      \* CoinMap: userLocation state
    alert,                \* dialog shown by the last step (Swal.fire / alert)
    mounts,               \* number of AR views mounted so far
    view,                 \* the AR component instance mounted last
    ios,                  \* isIOS() of the platform
    iosPermissionGranted, \* AR view state
    userLocation,         \* AR view state
    userLocationRef,      \* AR view ref
    userHeading,          \* AR view state
    userHeadingRef,       \* AR view ref (second ARView copy)
    canCollect,           \* AR view state: enables the collect button
    canCollectRef,        \* AR view ref read by handleCollect
    modelRef,             \* run whose loaded model the ref holds, 0 = null
    modelVisible,         \* visible flag of the model held by modelRef
    modelPos,             \* position of that model (UpdateView smoothing)
    camera,               \* cameraRef.current: rotation and world matrix
    runs,                 \* scene/camera effect runs of the instance
    animationFrameIdRef,  \* run whose frame request id the ref holds, 0 = none
    listeners,            \* device-orientation listeners on window
    watch,                \* geolocation.watchPosition registered
    oneShot,              \* geolocation.getCurrentPosition pending
    prevLocationRef,      \* second ARView copy: location of the last frame
    spawnPoints,          \* PokemonGoStyleAR state
    closestSpawn,         \* PokemonGoStyleAR state
    spawnModelsRef,       \* PokemonGoStyleAR: spawn id -> registered model
    loads,                \* PokemonGoStyleAR: model loads in flight
    frames,               \* frames run by the instance (accumulating views)
    events,               \* sensor callbacks taken by the instance
    lastFrame,            \* locals of the frame, when the last step was one
    call                  \* a helper applied on its own: arguments and result

appVars == <<mode, selectedCoin, mounts, mapUserLocation>>
sensorVars == <<listeners, watch, oneShot>>
stateVars == <<iosPermissionGranted, userLocation, userLocationRef,
               userHeading, userHeadingRef>>
sceneVars == <<canCollect, canCollectRef, modelRef, modelVisible, modelPos,
               camera, runs, animationFrameIdRef, prevLocationRef, frames>>
spawnVars == <<spawnPoints, closestSpawn, spawnModelsRef, loads>>

vars == <<mode, selectedCoin, mapUserLocation, alert, mounts, view, ios, call,
          iosPermissionGranted, userLocation, userLocationRef, userHeading,
          userHeadingRef, canCollect, canCollectRef, modelRef, modelVisible,
          modelPos, camera, runs, animationFrameIdRef, listeners, watch,
          oneShot, prevLocationRef, spawnPoints, closestSpawn,
          spawnModelsRef, loads, frames, events, lastFrame>>

-----------------------------------------------------------------------------
(* JavaScript values *)

NULL == [null |-> TRUE]

NaN == [nan |-> TRUE]

Num(n) == [num |-> n]

\* ToNumber: null coerces to 0 in arithmetic
ToNumber(v) == IF v = NULL THEN 0 ELSE v.num

Abs(x) == IF x < 0 THEN 0 - x ELSE x

Min(a, b) == IF a <= b THEN a ELSE b

Max(a, b) == IF a >= b THEN a ELSE b

\* a / b for b # 0, rounded towards zero
Quot(a, b) ==
    IF (a >= 0) = (b > 0) THEN Abs(a) \div Abs(b) ELSE 0 - (Abs(a) \div Abs(b))

\* JavaScript %: the result takes the sign of the dividend
JsMod(a, m) == IF a >= 0 THEN a % m ELSE 0 - ((0 - a) % m)

-----------------------------------------------------------------------------
(* Bounds of the model *)

\* AR views mounted in one behaviour
MaxMounts == 1

\* runs of the scene effect in one UpdateView instance
MaxRuns == 2

\* animation frames of one instance of a view that accumulates per frame
MaxFrames == 2

\* sensor callbacks taken by one instance of a view that smooths them
MaxEvents == 2

\* spawn points generateSpawnPoints makes (the code asks for 5)
SpawnCount == 1

\* loads of torn-down scenes followed per spawn id
MaxDead == 1

-----------------------------------------------------------------------------
(* Geodesy *)

RECURSIVE IsqrtBits(_, _, _)
\* floor(sqrt(n)) by binary descent from bit b
IsqrtBits(n, r, b) ==
    IF b = 0 THEN r
    ELSE IF (r + b) * (r + b) <= n THEN IsqrtBits(n, r + b, b \div 2)
         ELSE IsqrtBits(n, r, b \div 2)

Isqrt(n) == IsqrtBits(n, 0, 16384)

\* sqrt(a^2 + b^2), scaled down first when the squares would not fit
Hypot(a, b) ==
    LET m  == Max(Abs(a), Abs(b))
        s  == (m \div 16384) + 1
        a1 == Abs(a) \div s
        b1 == Abs(b) \div s
    IN  s * Isqrt(a1 * a1 + b1 * b1)

\* the distance with the signed differences scaled down, not their magnitudes
haversineDistance_signed(lat1, lon1, lat2, lon2) ==
    LET dLat == lat2 - lat1
        dLon == lon2 - lon1
        s    == (Max(Abs(dLat), Abs(dLon)) \div 16384) + 1
    IN  s * Isqrt((dLat \div s) * (dLat \div s) + (dLon \div s) * (dLon \div s))

\* great-circle distance in metres; on the metre grid 2*atan2(sqrt(a),
\* sqrt(1-a)) * R is the length of the (dLat, dLon) offset
haversineDistance(lat1, lon1, lat2, lon2) ==
    LET dLat == lat2 - lat1
        dLon == lon2 - lon1
    IN  Hypot(dLat, dLon)

\* the two-point form imported by CoinMap from ../utils/utils
utilsHaversineDistance(a, b) ==
    haversineDistance(a.latitude, a.longitude, b.latitude, b.longitude)

\* atan(a/b) in degrees for 0 <= a <= b, b > 0
AtanDeg(a, b) ==
    LET s  == (b \div 1000) + 1
        a1 == a \div s
        b1 == b \div s
    IN  (a1 * (45 * b1 + 16 * (b1 - a1))) \div (b1 * b1)

\* Math.atan2(y, x) in degrees, in (-180, 180]
Atan2Deg(y, x) ==
    LET ay   == Abs(y)
        ax   == Abs(x)
        base == IF ay = 0 /\ ax = 0 THEN 0
                ELSE IF ay <= ax THEN AtanDeg(ay, ax)
                ELSE 90 - AtanDeg(ax, ay)
        ang  == IF x >= 0 THEN base ELSE 180 - base
    IN  IF y < 0 THEN 0 - ang ELSE ang

\* initial compass bearing from point 1 to point 2, degrees
\* the bearing as atan2 gives it, not normalised
calculateBearing_raw(lat1, lon1, lat2, lon2) ==
    Atan2Deg(lon2 - lon1, lat2 - lat1)

calculateBearing(lat1, lon1, lat2, lon2) ==
    LET y    == lon2 - lon1
        x    == lat2 - lat1
        brng == Atan2Deg(y, x)
    IN  JsMod(brng + 360, 360)

\* local tangent plane: x east, z = -north
latLngToPosition(userPos, targetPos) ==
    [x |-> targetPos.lng - userPos.longitude,
     y |-> 0,
     z |-> 0 - (targetPos.lat - userPos.latitude)]

-----------------------------------------------------------------------------
(* CoinMap: the fixed coin list, on the grid *)

COINS ==
    << [id |-> 1,  lat |-> 0,      lng |-> 0],
       [id |-> 2,  lat |-> 240626, lng |-> -122788],
       [id |-> 3,  lat |-> 15534,  lng |-> -40109],
       [id |-> 4,  lat |-> -11141, lng |-> -10956],
       [id |-> 5,  lat |-> 15529,  lng |-> -40106],
       [id |-> 6,  lat |-> 5005,   lng |-> -147],
       [id |-> 7,  lat |-> 4402,   lng |-> 3534],
       [id |-> 8,  lat |-> -60944, lng |-> -36906],
       [id |-> 9,  lat |-> 997,    lng |-> -3253],
       [id |-> 10, lat |-> -1553,  lng |-> -2011],
       [id |-> 11, lat |-> -5501,  lng |-> -5118],
       [id |-> 12, lat |-> -6684,  lng |-> -3334] >>

Place(lat, lng) == [latitude |-> lat, longitude |-> lng]

\* positions the geolocation service reports while an AR view is mounted:
\* 100 m south of coin 1, 40 m north of it, 150 m south of it
Places == { Place(-100, 0), Place(40, 0), Place(-150, 0) }

\* positions it reports to the map: 100 m, 500 m and 501 m from coin 1
MapPlaces == { Place(-100, 0), Place(300, 400), Place(-300, -402) }

\* fixes of pos.coords: heading is null while the device is at rest; the
\* moving device walks south through the place north of the coin
Fixes ==
    { [place |-> Place(-100, 0), heading |-> NULL],
      [place |-> Place(40, 0),   heading |-> Num(180)],
      [place |-> Place(-150, 0), heading |-> NULL] }

\* event.alpha of an orientation event
Alphas == { 0, 270 }

\* event.webkitCompassHeading of an orientation event (iOS)
CompassHeadings == { 0, 90 }

Views == { "PG", "A1", "A2", "V", "U" }

SingleCoinViews == { "A1", "A2", "V", "U" }

\* dialogs that refuse entry to the AR view
Warnings == { "tooFarCoin", "tooFarAny", "noLocation" }

-----------------------------------------------------------------------------
(* Thresholds of the components *)

MAP_AR_DISTANCE == 500

A1_SHOW_DISTANCE == 100
A1_MAX_ANGLE == 90
A1_COLLECT_DISTANCE == 100

A2_SHOW_DISTANCE == 100
A2_MAX_ANGLE == 90

U_SHOW_DISTANCE == 100
U_MAX_ANGLE == 90
U_COLLECT_DISTANCE == 100

MAX_DISTANCE == 100
COLLECTION_DISTANCE == 5
VIEW_ANGLE == 30
V_COLLECT_ANGLE == 15

CameraFov == 75
CameraZ == 2
CameraFar == 1000

\* half of the horizontal field of view, for a 9:16 portrait viewport
HalfFovX == (CameraFov * 9) \div (2 * 16)

-----------------------------------------------------------------------------
(* Projection, smoothing, per-frame decisions *)

\* a heading reduced to [0, 360)
NormDeg(a) == ((a % 360) + 360) % 360

\* if (angleDiff > 180) angleDiff = 360 - angleDiff
\* the fold left out
FoldAngle_none(a) == a

FoldAngle(a) == IF a > 180 THEN 360 - a ELSE a

\* angleDiff of PokemonGoStyleAR, the first ARView copy and UpdateView
AngleDiff(bearing, heading) ==
    FoldAngle(Abs(JsMod((bearing - heading) + 360, 360)))

\* angle of the second ARView copy
A2_angle(bearingToCoin, currentHeading) ==
    Min(Max(FoldAngle(JsMod((bearingToCoin - currentHeading) + 360, 360)), 0),
        180)

\* angleDiff of View.jsx: signed, compared through Math.abs
V_angleDiff(bearing, heading) ==
    JsMod((bearing - heading) + 540, 360) - 180

FreshCamera == [yaw |-> 0, mz |-> 0, myaw |-> 0]

\* renderer.render(scene, camera): camera.updateMatrixWorld()
Rendered(cam) == [cam EXCEPT !.mz = CameraZ, !.myaw = cam.yaw]

\* vector.project(camera) and the on-screen test.  The point lies on the
\* camera's horizontal plane, so the test is on its direction seen from the
\* camera as the world matrix of the last render placed it: strictly inside
\* the horizontal field of view and nearer than the far plane.
OnScreen(pos, cam) ==
    LET east  == pos.x
        north == (0 - pos.z) + cam.mz
        dir   == JsMod(Atan2Deg(east, north) + 360, 360)
        off   == FoldAngle(Abs(dir - NormDeg(cam.myaw)))
    IN  /\ ~(east = 0 /\ north = 0)
        /\ off < HalfFovX
        /\ Hypot(east, north) < CameraFar

\* smoothValue of ARView.jsx and UpdateView.jsx, factor in percent
smoothValue(prev, next, factor) ==
    IF prev = NULL \/ prev = NaN THEN next
    ELSE Num(prev.num + ((ToNumber(next) - prev.num) * factor) \div 100)

CoinDistance(loc, coin) ==
    haversineDistance(loc.latitude, loc.longitude, coin.lat, coin.lng)

CoinBearing(loc, coin) ==
    calculateBearing(loc.latitude, loc.longitude, coin.lat, coin.lng)

\* the first copy's decision with the show threshold compared strictly
A1_decision_strict(loc, hdg, coin, cam) ==
    LET distance  == CoinDistance(loc, coin)
        bearing   == CoinBearing(loc, coin)
        angleDiff == AngleDiff(bearing, ToNumber(hdg))
        onScreen  == OnScreen(latLngToPosition(loc, coin), cam)
    IN  [distance   |-> distance,
         angleDiff  |-> angleDiff,
         onScreen   |-> onScreen,
         visible    |-> angleDiff <= A1_MAX_ANGLE /\ distance < A1_SHOW_DISTANCE
                        /\ onScreen,
         canCollect |-> distance <= A1_COLLECT_DISTANCE]

\* first ARView copy: the locals of one frame
A1_decision(loc, hdg, coin, cam) ==
    LET distance  == CoinDistance(loc, coin)
        bearing   == CoinBearing(loc, coin)
        angleDiff == AngleDiff(bearing, ToNumber(hdg))
        onScreen  == OnScreen(latLngToPosition(loc, coin), cam)
    IN  [distance   |-> distance,
         angleDiff  |-> angleDiff,
         onScreen   |-> onScreen,
         visible    |-> angleDiff <= A1_MAX_ANGLE /\ distance <= A1_SHOW_DISTANCE
                        /\ onScreen,
         canCollect |-> distance <= A1_COLLECT_DISTANCE]

\* second ARView copy
A2_decision(loc, hdg, coin, cam) ==
    LET distance == CoinDistance(loc, coin)
        bearing  == CoinBearing(loc, coin)
        angle    == A2_angle(bearing, ToNumber(hdg))
        visible  == angle <= A2_MAX_ANGLE /\ distance <= A2_SHOW_DISTANCE
    IN  [distance   |-> distance,
         angleDiff  |-> angle,
         onScreen   |-> OnScreen(latLngToPosition(loc, coin), cam),
         visible    |-> visible,
         canCollect |-> visible]

\* UpdateView's decision with the collectible flag taken from visible, as
\* the second ARView copy takes it
U_decision_visible(loc, hdg, coin, cam, pos) ==
    LET distance == CoinDistance(loc, coin)
        bearing  == CoinBearing(loc, coin)
        angle    == AngleDiff(bearing, ToNumber(hdg))
        onScreen == OnScreen(pos, cam)
        visible  == angle <= U_MAX_ANGLE /\ distance <= U_SHOW_DISTANCE
                    /\ onScreen
    IN  [distance   |-> distance,
         angleDiff  |-> angle,
         onScreen   |-> onScreen,
         visible    |-> visible,
         canCollect |-> visible]

\* UpdateView: the on-screen test is on the smoothed model position
U_decision(loc, hdg, coin, cam, pos) ==
    LET distance == CoinDistance(loc, coin)
        bearing  == CoinBearing(loc, coin)
        angle    == AngleDiff(bearing, ToNumber(hdg))
        onScreen == OnScreen(pos, cam)
    IN  [distance   |-> distance,
         angleDiff  |-> angle,
         onScreen   |-> onScreen,
         visible    |-> angle <= U_MAX_ANGLE /\ distance <= U_SHOW_DISTANCE
                        /\ onScreen,
         canCollect |-> distance <= U_COLLECT_DISTANCE]

\* View.jsx: signed angle, strict comparisons, no on-screen test
V_decision(loc, hdg, coin, cam) ==
    LET dist      == CoinDistance(loc, coin)
        bearing   == CoinBearing(loc, coin)
        angleDiff == V_angleDiff(bearing, ToNumber(hdg))
    IN  [distance   |-> dist,
         angleDiff  |-> Abs(angleDiff),
         onScreen   |-> OnScreen(latLngToPosition(loc, coin), cam),
         visible    |-> Abs(angleDiff) < VIEW_ANGLE /\ dist < MAX_DISTANCE,
         canCollect |-> dist < COLLECTION_DISTANCE
                        /\ Abs(angleDiff) < V_COLLECT_ANGLE]

\* UpdateView: model position smoothing, factor = min(0.3, 0.05 + dist/50)
U_smoothPosition(prevPos, targetPos) ==
    LET dx     == targetPos.x - prevPos.x
        dz     == targetPos.z - prevPos.z
        dist   == Hypot(dx, dz)
        factor == Min(30, 5 + (dist * 100) \div 50)
    IN  [x |-> smoothValue(Num(prevPos.x), Num(targetPos.x), factor).num,
         y |-> 0,
         z |-> smoothValue(Num(prevPos.z), Num(targetPos.z), factor).num]

\* UpdateView: camera yaw smoothing.  prevHeading is read back from
\* rotation.y, which holds the negated heading.
U_smoothHeading(cam, hdg) ==
    LET prevHeading   == 0 - cam.yaw
        headingFactor == Min(30, 5 + (Abs(ToNumber(hdg) - prevHeading) * 100) \div 180)
    IN  smoothValue(Num(prevHeading), hdg, headingFactor).num

\* getSpeed, in metres per second (the code's metres/ms times 1000)
getSpeed(current, prev, deltaTime) ==
    IF prev = NULL \/ deltaTime = 0 THEN 0
    ELSE Quot(haversineDistance(prev.latitude, prev.longitude,
                                current.latitude, current.longitude) * 1000,
              deltaTime)

\* second ARView copy: Math.min(0.5, 0.05 + Math.min(speed*1000/5, 0.45)),
\* in percent
A2_smoothingFactor(speed) == Min(50, 5 + Min(Quot(speed * 100, 5), 45))

\* second ARView copy: camera yaw smoothing, same read-back as UpdateView
A2_smoothHeading(cam, hdg, factor) ==
    smoothValue(Num(0 - cam.yaw), hdg, factor).num

-----------------------------------------------------------------------------
(* Instances, effect runs and the window's listeners *)

Mounted == mode = "ar"

\* one run of the scene effect: the closure values its animate captured,
\* its getUserMedia request, its model load and its pending frame request
NewRun(c, h) ==
    [coin |-> c, hdg |-> h, cam |-> "pending", stopped |-> FALSE,
     load |-> "pending", raf |-> FALSE, torn |-> FALSE]

\* states of a run's camera request in which it holds a MediaStream:
\* attached to the video element, or dropped because the element was gone
HasStream == { "playing", "started", "failed", "dropped" }

\* window.addEventListener(type, handleOrientation, capture)
Listener(type, capture, gen) == [type |-> type, capture |-> capture, gen |-> gen]

\* window.removeEventListener(type, handleOrientation[, capture]): removes
\* the registration with the same type, callback and capture flag
RemoveListener(ls, type, capture, gen) == ls \ { Listener(type, capture, gen) }

\* cleanup of the orientation effect: both removals omit the capture flag
OrientationCleanup(ls, gen) ==
    RemoveListener(RemoveListener(ls, "deviceorientationabsolute", FALSE, gen),
                   "deviceorientation", FALSE, gen)

\* body of the orientation effect of ARView.jsx and UpdateView.jsx
OrientationListeners(granted, gen) ==
    IF ios
    THEN IF granted THEN { Listener("deviceorientation", TRUE, gen) } ELSE {}
    ELSE { Listener("deviceorientationabsolute", TRUE, gen),
           Listener("deviceorientation", TRUE, gen) }

\* body of the orientation effect of View.jsx
V_OrientationListeners(granted, gen) ==
    IF granted \/ ~ios THEN { Listener("deviceorientation", TRUE, gen) } ELSE {}

\* an orientation event reaches the handler of the mounted instance
Listening == \E l \in listeners : l.gen = mounts

\* events the platform produces: webkitCompassHeading exists on iOS only
OrientationEvents ==
    IF ios
    THEN { [alpha |-> NULL, webkitCompassHeading |-> Num(c)] : c \in CompassHeadings }
    ELSE { [alpha |-> a, webkitCompassHeading |-> NULL] : a \in { Num(x) : x \in Alphas } \cup { NULL } }

\* the heading of an event with alpha taken as it comes: 360 - alpha
EventHeading_unfolded(event) ==
    IF ios /\ event.webkitCompassHeading # NULL THEN event.webkitCompassHeading
    ELSE IF event.alpha # NULL THEN Num(360 - event.alpha.num)
    ELSE NULL

\* heading computed by handleOrientation of ARView.jsx and UpdateView.jsx
EventHeading(event) ==
    IF ios /\ event.webkitCompassHeading # NULL THEN event.webkitCompassHeading
    ELSE IF event.alpha # NULL THEN Num(JsMod(360 - event.alpha.num, 360))
    ELSE NULL

\* cancelAnimationFrame(animationFrameIdRef.current)
CancelFrame(rs, id) ==
    IF id = 0 THEN rs ELSE [rs EXCEPT ![id].raf = FALSE]

\* if (videoRef.current?.srcObject) ...getTracks().forEach(t => t.stop()):
\* videoRef holds the video element of the latest run
StopTracks(rs) ==
    LET n == Len(rs)
    IN  IF n > 0 /\ rs[n].cam \in { "playing", "started", "failed" }
        THEN [rs EXCEPT ![n].stopped = TRUE]
        ELSE rs

\* cleanup function of the scene effect
SceneCleanup(rs, id) ==
    LET n  == Len(rs)
        r1 == StopTracks(CancelFrame(rs, id))
    IN  IF n = 0 THEN rs ELSE [r1 EXCEPT ![n].torn = TRUE]

\* spawn ids; generateSpawnPoints numbers the spawns 1..count
SpawnIds == 1 .. SpawnCount

\* spawnModelsRef.current = {}
NoSpawnModels == [id \in SpawnIds |-> NULL]

\* no model load in flight: per spawn id the load of the live scene and the
\* number of pending loads of torn-down scenes
NoLoads == [id \in SpawnIds |-> [live |-> "none", dead |-> 0]]

Origin == [x |-> 0, y |-> 0, z |-> 0]

Init ==
    /\ mode = "map"
    /\ selectedCoin = NULL
    /\ mapUserLocation = NULL
    /\ alert = "none"
    /\ mounts = 0
    /\ view = "none"
    /\ ios \in BOOLEAN
    /\ iosPermissionGranted = FALSE
    /\ userLocation = NULL
    /\ userLocationRef = NULL
    /\ userHeading = NULL
    /\ userHeadingRef = NULL
    /\ canCollect = FALSE
    /\ canCollectRef = FALSE
    /\ modelRef = 0
    /\ modelVisible = FALSE
    /\ modelPos = Origin
    /\ camera = FreshCamera
    /\ runs = << >>
    /\ animationFrameIdRef = 0
    /\ listeners = {}
    /\ watch = FALSE
    /\ oneShot = FALSE
    /\ prevLocationRef = NULL
    /\ spawnPoints = << >>
    /\ closestSpawn = NULL
    /\ spawnModelsRef = NoSpawnModels
    /\ loads = NoLoads
    /\ frames = 0
    /\ events = 0
    /\ lastFrame = NULL
    /\ call = NULL

-----------------------------------------------------------------------------
(* App and CoinMap.  CoinMap is followed while another AR view can still    *)
(* mount within MaxMounts.                                                  *)

\* listeners the orientation effect of a view adds when it mounts
MountListeners(v, gen) ==
    CASE v = "PG" -> { Listener("deviceorientationabsolute", TRUE, gen),
                       Listener("deviceorientation", TRUE, gen) }
      [] v = "V"  -> V_OrientationListeners(FALSE, gen)
      [] OTHER    -> OrientationListeners(FALSE, gen)

\* App.onEnterAR: setSelectedCoin(coin); setMode('ar').  CoinMap unmounts
\* and the AR view mounts; its mount effects run: geolocation requests,
\* orientation listeners, the scene effect and its getUserMedia request.
\* The module ./Components/ARView holds three components, so the component
\* that mounts is any of the views.
onEnterAR(coin) ==
    /\ mounts < MaxMounts
    /\ mode' = "ar"
    /\ selectedCoin' = coin
    /\ mapUserLocation' = NULL
    /\ alert' = "none"
    /\ mounts' = mounts + 1
    /\ \E v \in Views :
          /\ view' = v
          /\ listeners' = listeners \cup MountListeners(v, mounts + 1)
          /\ oneShot' = (v # "V")
    /\ watch' = TRUE
    /\ iosPermissionGranted' = FALSE
    /\ userLocation' = NULL
    /\ userLocationRef' = NULL
    /\ userHeading' = NULL
    /\ userHeadingRef' = NULL
    /\ canCollect' = FALSE
    /\ canCollectRef' = FALSE
    /\ modelRef' = 0
    /\ modelVisible' = FALSE
    /\ modelPos' = Origin
    /\ camera' = FreshCamera
    /\ runs' = << NewRun(coin, NULL) >>
    /\ animationFrameIdRef' = 0
    /\ prevLocationRef' = NULL
    /\ spawnPoints' = << >>
    /\ closestSpawn' = NULL
    /\ spawnModelsRef' = NoSpawnModels
    /\ loads' = NoLoads
    /\ frames' = 0
    /\ events' = 0
    /\ lastFrame' = NULL
    /\ UNCHANGED <<ios, call>>

\* showWarningAlert(...): CoinMap stays as it is
Warn(w) ==
    /\ alert' = w
    /\ UNCHANGED <<mode, selectedCoin, mapUserLocation, mounts, view, ios, call,
                   stateVars, sceneVars, spawnVars, sensorVars, events,
                   lastFrame>>

\* CoinMap: the watchPosition callback
Map_watchPosition(p) ==
    /\ mode = "map"
    /\ mounts < MaxMounts
    /\ mapUserLocation' = p
    /\ lastFrame' = NULL
    /\ alert' = "none"
    /\ UNCHANGED <<mode, selectedCoin, mounts, view, ios, call, stateVars,
                   sceneVars, spawnVars, sensorVars, events>>

\* the gate with the threshold a digit too long
Map_markerNear_wide(dist) == dist < 10 * MAP_AR_DISTANCE

\* the gate with the threshold counted as inside
Map_markerNear_inclusive(dist) == dist <= MAP_AR_DISTANCE

\* the gate of the marker's click listener
Map_markerNear(dist) == dist < MAP_AR_DISTANCE

\* CoinMap: click on the marker of COINS[k]; markers exist once the map
\* does, that is once a location is known
Map_markerClick(k) ==
    /\ mode = "map"
    /\ mounts < MaxMounts
    /\ mapUserLocation # NULL
    /\ LET coin == COINS[k]
           dist == utilsHaversineDistance(mapUserLocation,
                       [latitude |-> coin.lat, longitude |-> coin.lng])
       IN  IF Map_markerNear(dist) THEN onEnterAR(coin) ELSE Warn("tooFarCoin")

\* a scan that keeps the last of the coins at the least distance
Map_closest_last(loc, k, best, bestDist) ==
    LET D(j) == utilsHaversineDistance(loc,
                    [latitude |-> COINS[j].lat, longitude |-> COINS[j].lng])
        n == CHOOSE j \in DOMAIN COINS :
                /\ \A i \in DOMAIN COINS : D(j) <= D(i)
                /\ \A i \in DOMAIN COINS : i > j => D(j) < D(i)
    IN  <<n, D(n)>>

RECURSIVE Map_closest(_, _, _, _)
\* the COINS.forEach scan of handleARClick from index k on:
\* <<closestCoin index or 0, closestDist>>; -1 stands for Infinity
Map_closest(loc, k, best, bestDist) ==
    IF k > Len(COINS) THEN <<best, bestDist>>
    ELSE LET dist == utilsHaversineDistance(loc,
                         [latitude |-> COINS[k].lat, longitude |-> COINS[k].lng])
         IN  IF bestDist = -1 \/ dist < bestDist
             THEN Map_closest(loc, k + 1, k, dist)
             ELSE Map_closest(loc, k + 1, best, bestDist)

\* CoinMap: the "Enter AR View" button
Map_handleARClick ==
    /\ mode = "map"
    /\ mounts < MaxMounts
    /\ IF mapUserLocation = NULL THEN Warn("noLocation")
       ELSE LET c == Map_closest(mapUserLocation, 1, 0, -1)
            IN  IF c[1] # 0 /\ c[2] < MAP_AR_DISTANCE
                THEN onEnterAR(COINS[c[1]])
                ELSE Warn("tooFarAny")

\* an onBack that sets the mode and keeps the selection
Unmounted_keepsCoin(rs) ==
    /\ mode' = "map"
    /\ selectedCoin' = selectedCoin
    /\ mapUserLocation' = NULL
    /\ watch' = FALSE
    /\ listeners' = OrientationCleanup(listeners, mounts)
    /\ runs' = rs
    /\ iosPermissionGranted' = FALSE
    /\ userLocation' = NULL
    /\ userHeading' = NULL
    /\ canCollect' = FALSE
    /\ lastFrame' = NULL
    /\ UNCHANGED <<mounts, view, ios, call, userLocationRef, userHeadingRef,
                   canCollectRef, modelRef, modelVisible, modelPos, camera,
                   animationFrameIdRef, prevLocationRef, frames, oneShot,
                   events>>

\* App.onBack: the AR view unmounts, its effect cleanups leave the runs rs,
\* and a new CoinMap mounts.  React drops the state of the unmounted
\* component; its refs live on in the closures of pending callbacks.
Unmounted(rs) ==
    /\ mode' = "map"
    /\ selectedCoin' = NULL
    /\ mapUserLocation' = NULL
    /\ watch' = FALSE
    /\ listeners' = OrientationCleanup(listeners, mounts)
    /\ runs' = rs
    /\ iosPermissionGranted' = FALSE
    /\ userLocation' = NULL
    /\ userHeading' = NULL
    /\ canCollect' = FALSE
    /\ lastFrame' = NULL
    /\ UNCHANGED <<mounts, view, ios, call, userLocationRef, userHeadingRef,
                   canCollectRef, modelRef, modelVisible, modelPos, camera,
                   animationFrameIdRef, prevLocationRef, frames, oneShot,
                   events>>

-----------------------------------------------------------------------------
(* Steps the ARView copies of ARView.jsx and UpdateView.jsx share *)

\* what a frame leaves in lastFrame
FrameRecord(i, hdg, d) ==
    [run |-> i, computed |-> TRUE, heading |-> hdg, distance |-> d.distance,
     angleDiff |-> d.angleDiff, onScreen |-> d.onScreen,
     visible |-> d.visible, canCollect |-> d.canCollect]

IdleFrame(i) == [run |-> i, computed |-> FALSE]

\* cleanup of the scene effect
A1_cleanup == SceneCleanup(runs, animationFrameIdRef)

\* geolocation callback, from getCurrentPosition (once) or watchPosition
A1_handlePosition(p, h, once) ==
    /\ view = "A1"
    /\ IF once THEN oneShot ELSE watch
    /\ oneShot' = IF once THEN FALSE ELSE oneShot
    /\ userLocation' = IF Mounted THEN p ELSE userLocation
    /\ userLocationRef' = IF Mounted THEN p ELSE userLocationRef
    /\ userHeading' = IF Mounted /\ h # NULL THEN h ELSE userHeading
    /\ lastFrame' = NULL
    /\ alert' = "none"
    /\ UNCHANGED <<appVars, view, ios, call, iosPermissionGranted,
                   userHeadingRef, sceneVars, spawnVars, listeners, watch,
                   events>>

HandleOrientation(event) ==
    /\ Listening
    /\ userHeading' = IF Mounted /\ EventHeading(event) # NULL
                      THEN EventHeading(event) ELSE userHeading
    /\ lastFrame' = NULL
    /\ alert' = "none"
    /\ UNCHANGED <<appVars, view, ios, call, iosPermissionGranted,
                   userLocation, userLocationRef, userHeadingRef, sceneVars,
                   spawnVars, sensorVars, events>>

\* the "Enable Compass" button with the answer of the permission prompt
RequestIOSPermission(response) ==
    /\ Mounted
    /\ ios
    /\ ~iosPermissionGranted
    /\ IF response = "granted"
       THEN /\ iosPermissionGranted' = TRUE
            /\ listeners' = OrientationCleanup(listeners, mounts)
                              \cup OrientationListeners(TRUE, mounts)
            /\ alert' = "none"
       ELSE /\ alert' = "permissionDenied"
            /\ UNCHANGED <<iosPermissionGranted, listeners>>
    /\ lastFrame' = NULL
    /\ UNCHANGED <<appVars, view, ios, call, userLocation, userLocationRef,
                   userHeading, userHeadingRef, sceneVars, spawnVars, watch,
                   oneShot, events>>

\* GLTFLoader onLoad of run i
ModelLoaded(i) ==
    /\ i \in DOMAIN runs
    /\ runs[i].load = "pending"
    /\ runs' = [runs EXCEPT ![i].load = "done"]
    /\ modelRef' = i
    /\ modelVisible' = FALSE
    /\ modelPos' = Origin
    /\ lastFrame' = NULL
    /\ alert' = "none"
    /\ UNCHANGED <<appVars, view, ios, call, stateVars, canCollect,
                   canCollectRef, camera, animationFrameIdRef,
                   prevLocationRef, frames, spawnVars, sensorVars, events>>

\* an onError that stops the frame loop of run i
ModelLoadError_stops(i) ==
    /\ i \in DOMAIN runs
    /\ runs[i].load = "pending"
    /\ runs' = [runs EXCEPT ![i].load = "failed", ![i].raf = FALSE]
    /\ lastFrame' = NULL
    /\ alert' = "none"
    /\ UNCHANGED <<appVars, view, ios, call, stateVars, canCollect,
                   canCollectRef, modelRef, modelVisible, modelPos, camera,
                   animationFrameIdRef, prevLocationRef, frames, spawnVars,
                   sensorVars, events>>

\* GLTFLoader onError of run i
ModelLoadError(i) ==
    /\ i \in DOMAIN runs
    /\ runs[i].load = "pending"
    /\ runs' = [runs EXCEPT ![i].load = "failed"]
    /\ lastFrame' = NULL
    /\ alert' = "none"
    /\ UNCHANGED <<appVars, view, ios, call, stateVars, canCollect,
                   canCollectRef, modelRef, modelVisible, modelPos, camera,
                   animationFrameIdRef, prevLocationRef, frames, spawnVars,
                   sensorVars, events>>

\* setupCamera: getUserMedia resolves; video.srcObject = stream
GetUserMediaResolved(i) ==
    /\ i \in DOMAIN runs
    /\ runs[i].cam = "pending"
    /\ runs' = [runs EXCEPT ![i].cam = "playing"]
    /\ lastFrame' = NULL
    /\ alert' = "none"
    /\ UNCHANGED <<appVars, view, ios, call, stateVars, canCollect,
                   canCollectRef, modelRef, modelVisible, modelPos, camera,
                   animationFrameIdRef, prevLocationRef, frames, spawnVars,
                   sensorVars, events>>

\* setupCamera: getUserMedia rejects; the catch block
GetUserMediaRejected(i) ==
    /\ i \in DOMAIN runs
    /\ runs[i].cam = "pending"
    /\ runs' = [runs EXCEPT ![i].cam = "denied"]
    /\ alert' = "cameraRequired"
    /\ lastFrame' = NULL
    /\ UNCHANGED <<appVars, view, ios, call, stateVars, canCollect,
                   canCollectRef, modelRef, modelVisible, modelPos, camera,
                   animationFrameIdRef, prevLocationRef, frames, spawnVars,
                   sensorVars, events>>

\* setupCamera: video.play() rejects; the catch block
VideoPlayRejected(i) ==
    /\ i \in DOMAIN runs
    /\ runs[i].cam = "playing"
    /\ runs' = [runs EXCEPT ![i].cam = "failed"]
    /\ alert' = "cameraRequired"
    /\ lastFrame' = NULL
    /\ UNCHANGED <<appVars, view, ios, call, stateVars, canCollect,
                   canCollectRef, modelRef, modelVisible, modelPos, camera,
                   animationFrameIdRef, prevLocationRef, frames, spawnVars,
                   sensorVars, events>>

-----------------------------------------------------------------------------
(* First ARView copy of ARView.jsx (A1) *)

A1_handleOrientation(event) == view = "A1" /\ HandleOrientation(event)

A1_requestIOSPermission(response) == view = "A1" /\ RequestIOSPermission(response)

A1_modelLoaded(i) == view = "A1" /\ ModelLoaded(i)

A1_modelLoadError(i) == view = "A1" /\ ModelLoadError(i)

A1_getUserMediaResolved(i) == view = "A1" /\ GetUserMediaResolved(i)

A1_getUserMediaRejected(i) == view = "A1" /\ GetUserMediaRejected(i)

A1_videoPlayRejected(i) == view = "A1" /\ VideoPlayRejected(i)

\* animate deciding without the test of modelRef.current
A1_frame_modelless(i, rs) ==
    LET loc      == userLocationRef
        hdg      == rs[i].hdg
        computed == loc # NULL
        d        == A1_decision(loc, hdg, rs[i].coin, camera)
    IN  /\ runs' = [rs EXCEPT ![i].raf = TRUE]
        /\ animationFrameIdRef' = i
        /\ canCollectRef' = IF computed THEN d.canCollect ELSE canCollectRef
        /\ canCollect' = IF computed /\ Mounted THEN d.canCollect ELSE canCollect
        /\ modelVisible' = IF computed THEN d.visible ELSE modelVisible
        /\ camera' = Rendered(IF computed
                              THEN [camera EXCEPT !.yaw = ToNumber(hdg)]
                              ELSE camera)
        /\ lastFrame' = IF computed THEN FrameRecord(i, hdg, d) ELSE IdleFrame(i)
        /\ alert' = "none"
        /\ UNCHANGED <<appVars, view, ios, call, stateVars, modelRef,
                       modelPos, prevLocationRef, frames, spawnVars,
                       sensorVars, events>>

\* one call of animate of run i, on the runs rs
A1_frame(i, rs) ==
    LET loc      == userLocationRef
        hdg      == rs[i].hdg
        computed == modelRef # 0 /\ loc # NULL
        d        == A1_decision(loc, hdg, rs[i].coin, camera)
    IN  /\ runs' = [rs EXCEPT ![i].raf = TRUE]
        /\ animationFrameIdRef' = i
        /\ canCollectRef' = IF computed THEN d.canCollect ELSE canCollectRef
        /\ canCollect' = IF computed /\ Mounted THEN d.canCollect ELSE canCollect
        /\ modelVisible' = IF computed THEN d.visible ELSE modelVisible
        /\ camera' = Rendered(IF computed
                              THEN [camera EXCEPT !.yaw = ToNumber(hdg)]
                              ELSE camera)
        /\ lastFrame' = IF computed THEN FrameRecord(i, hdg, d) ELSE IdleFrame(i)
        /\ alert' = "none"
        /\ UNCHANGED <<appVars, view, ios, call, stateVars, modelRef,
                       modelPos, prevLocationRef, frames, spawnVars,
                       sensorVars, events>>

\* setupCamera: video.play() resolves; the first call of animate
A1_videoPlayResolved(i) ==
    /\ view = "A1"
    /\ i \in DOMAIN runs
    /\ runs[i].cam = "playing"
    /\ A1_frame(i, [runs EXCEPT ![i].cam = "started"])

\* the browser runs the frame callback run i requested
A1_animate(i) ==
    /\ view = "A1"
    /\ i \in DOMAIN runs
    /\ runs[i].raf
    /\ A1_frame(i, runs)

\* the collect button, enabled while canCollect
A1_handleCollect ==
    /\ view = "A1"
    /\ Mounted
    /\ canCollect
    /\ IF canCollectRef
       THEN /\ alert' = "collected"
            /\ Unmounted(A1_cleanup)
            /\ UNCHANGED spawnVars
       ELSE /\ alert' = "refused"
            /\ lastFrame' = NULL
            /\ UNCHANGED <<appVars, view, ios, call, stateVars, sceneVars,
                           spawnVars, sensorVars, events>>

\* the back button
A1_onBack ==
    /\ view = "A1"
    /\ Mounted
    /\ alert' = "none"
    /\ Unmounted(A1_cleanup)
    /\ UNCHANGED spawnVars

A1_Next ==
    \/ \E fix \in Fixes, once \in BOOLEAN :
          A1_handlePosition(fix.place, fix.heading, once)
    \/ \E event \in OrientationEvents : A1_handleOrientation(event)
    \/ \E response \in { "granted", "denied" } : A1_requestIOSPermission(response)
    \/ \E i \in DOMAIN runs : A1_modelLoaded(i)
    \/ \E i \in DOMAIN runs : A1_modelLoadError(i)
    \/ \E i \in DOMAIN runs : A1_getUserMediaResolved(i)
    \/ \E i \in DOMAIN runs : A1_getUserMediaRejected(i)
    \/ \E i \in DOMAIN runs : A1_videoPlayResolved(i)
    \/ \E i \in DOMAIN runs : A1_videoPlayRejected(i)
    \/ \E i \in DOMAIN runs : A1_animate(i)
    \/ A1_handleCollect
    \/ A1_onBack

-----------------------------------------------------------------------------
(* Second ARView copy of ARView.jsx (A2) *)

\* milliseconds between two calls of animate
DeltaTimes == { 16 }

A2_cleanup == SceneCleanup(runs, animationFrameIdRef)

\* geolocation callback: sets the state and writes both refs itself
A2_handlePosition(p, h, once) ==
    /\ view = "A2"
    /\ IF once THEN oneShot ELSE watch
    /\ oneShot' = IF once THEN FALSE ELSE oneShot
    /\ userLocation' = IF Mounted THEN p ELSE userLocation
    /\ userLocationRef' = p
    /\ userHeading' = IF Mounted /\ h # NULL THEN h ELSE userHeading
    /\ userHeadingRef' = IF h # NULL THEN h ELSE userHeadingRef
    /\ lastFrame' = NULL
    /\ alert' = "none"
    /\ UNCHANGED <<appVars, view, ios, call, iosPermissionGranted, sceneVars,
                   spawnVars, listeners, watch, events>>

\* handleOrientation sets the state only; userHeadingRef keeps its value
A2_handleOrientation(event) == view = "A2" /\ HandleOrientation(event)

A2_requestIOSPermission(response) == view = "A2" /\ RequestIOSPermission(response)

A2_modelLoaded(i) == view = "A2" /\ ModelLoaded(i)

A2_modelLoadError(i) == view = "A2" /\ ModelLoadError(i)

A2_getUserMediaResolved(i) == view = "A2" /\ GetUserMediaResolved(i)

A2_getUserMediaRejected(i) == view = "A2" /\ GetUserMediaRejected(i)

A2_videoPlayRejected(i) == view = "A2" /\ VideoPlayRejected(i)

\* one call of animate of run i, deltaTime after the call before
A2_frame(i, rs, deltaTime) ==
    LET loc       == userLocationRef
        hdg       == userHeadingRef
        coin      == rs[i].coin
        computed  == modelRef # 0 /\ loc # NULL
        speed     == getSpeed(loc, prevLocationRef, deltaTime)
        factor    == A2_smoothingFactor(speed)
        targetPos == latLngToPosition(loc, coin)
        pos       == [x |-> smoothValue(Num(modelPos.x), Num(targetPos.x), factor).num,
                      y |-> smoothValue(Num(modelPos.y), Num(targetPos.y), factor).num,
                      z |-> smoothValue(Num(modelPos.z), Num(targetPos.z), factor).num]
        yaw       == A2_smoothHeading(camera, hdg, factor)
        d         == A2_decision(loc, hdg, coin, camera)
    IN  /\ computed => frames < MaxFrames
        /\ frames' = IF computed THEN frames + 1 ELSE frames
        /\ prevLocationRef' = IF computed THEN loc ELSE prevLocationRef
        /\ modelPos' = IF computed THEN pos ELSE modelPos
        /\ camera' = Rendered(IF computed THEN [camera EXCEPT !.yaw = yaw]
                              ELSE camera)
        /\ canCollectRef' = IF computed THEN d.canCollect ELSE canCollectRef
        /\ canCollect' = IF computed /\ Mounted THEN d.canCollect ELSE canCollect
        /\ modelVisible' = IF computed THEN d.visible ELSE modelVisible
        /\ runs' = [rs EXCEPT ![i].raf = TRUE]
        /\ animationFrameIdRef' = i
        /\ lastFrame' = IF computed THEN FrameRecord(i, hdg, d) ELSE IdleFrame(i)
        /\ alert' = "none"
        /\ UNCHANGED <<appVars, view, ios, call, stateVars, modelRef, spawnVars,
                       sensorVars, events>>

A2_videoPlayResolved(i) ==
    /\ view = "A2"
    /\ i \in DOMAIN runs
    /\ runs[i].cam = "playing"
    /\ \E deltaTime \in DeltaTimes :
          A2_frame(i, [runs EXCEPT ![i].cam = "started"], deltaTime)

A2_animate(i) ==
    /\ view = "A2"
    /\ i \in DOMAIN runs
    /\ runs[i].raf
    /\ \E deltaTime \in DeltaTimes : A2_frame(i, runs, deltaTime)

A2_handleCollect ==
    /\ view = "A2"
    /\ Mounted
    /\ canCollect
    /\ IF canCollectRef
       THEN /\ alert' = "collected"
            /\ Unmounted(A2_cleanup)
            /\ UNCHANGED spawnVars
       ELSE /\ alert' = "refused"
            /\ lastFrame' = NULL
            /\ UNCHANGED <<appVars, view, ios, call, stateVars, sceneVars,
                           spawnVars, sensorVars, events>>

A2_onBack ==
    /\ view = "A2"
    /\ Mounted
    /\ alert' = "none"
    /\ Unmounted(A2_cleanup)
    /\ UNCHANGED spawnVars

A2_Next ==
    \/ \E fix \in Fixes, once \in BOOLEAN :
          A2_handlePosition(fix.place, fix.heading, once)
    \/ \E event \in OrientationEvents : A2_handleOrientation(event)
    \/ \E response \in { "granted", "denied" } : A2_requestIOSPermission(response)
    \/ \E i \in DOMAIN runs : A2_modelLoaded(i)
    \/ \E i \in DOMAIN runs : A2_modelLoadError(i)
    \/ \E i \in DOMAIN runs : A2_getUserMediaResolved(i)
    \/ \E i \in DOMAIN runs : A2_getUserMediaRejected(i)
    \/ \E i \in DOMAIN runs : A2_videoPlayResolved(i)
    \/ \E i \in DOMAIN runs : A2_videoPlayRejected(i)
    \/ \E i \in DOMAIN runs : A2_animate(i)
    \/ A2_handleCollect
    \/ A2_onBack

-----------------------------------------------------------------------------
(* ARView of UpdateView.jsx (U) *)

U_cleanup == SceneCleanup(runs, animationFrameIdRef)

\* the scene effect runs again: cleanup of the run before, then a new scene,
\* camera, video, model load and getUserMedia request; animate closes over
\* the heading h of this render
U_rerun(h) == Append(U_cleanup, NewRun(selectedCoin, h))

\* setUserHeading(h) and the render it causes: userHeading is a dependency
\* of the scene effect
U_setUserHeading(h) ==
    LET changed == Mounted /\ h # NULL /\ h # userHeading
    IN  /\ changed => Len(runs) < MaxRuns
        /\ userHeading' = IF changed THEN h ELSE userHeading
        /\ runs' = IF changed THEN U_rerun(h) ELSE runs
        /\ camera' = IF changed THEN FreshCamera ELSE camera

U_handlePosition(p, h, once) ==
    /\ view = "U"
    /\ IF once THEN oneShot ELSE watch
    /\ oneShot' = IF once THEN FALSE ELSE oneShot
    /\ userLocation' = IF Mounted THEN p ELSE userLocation
    /\ userLocationRef' = IF Mounted THEN p ELSE userLocationRef
    /\ U_setUserHeading(h)
    /\ lastFrame' = NULL
    /\ alert' = "none"
    /\ UNCHANGED <<appVars, view, ios, call, iosPermissionGranted, userHeadingRef,
                   canCollect, canCollectRef, modelRef, modelVisible,
                   modelPos, animationFrameIdRef, prevLocationRef, frames,
                   spawnVars, listeners, watch, events>>

U_handleOrientation(event) ==
    /\ view = "U"
    /\ Listening
    /\ U_setUserHeading(EventHeading(event))
    /\ lastFrame' = NULL
    /\ alert' = "none"
    /\ UNCHANGED <<appVars, view, ios, call, iosPermissionGranted, userLocation,
                   userLocationRef, userHeadingRef, canCollect,
                   canCollectRef, modelRef, modelVisible, modelPos,
                   animationFrameIdRef, prevLocationRef, frames, spawnVars,
                   sensorVars, events>>

\* iosPermissionGranted is a dependency of the orientation effect and of the
\* scene effect
U_requestIOSPermission(response) ==
    /\ view = "U"
    /\ Mounted
    /\ ios
    /\ ~iosPermissionGranted
    /\ IF response = "granted"
       THEN /\ Len(runs) < MaxRuns
            /\ iosPermissionGranted' = TRUE
            /\ listeners' = OrientationCleanup(listeners, mounts)
                              \cup OrientationListeners(TRUE, mounts)
            /\ runs' = U_rerun(userHeading)
            /\ camera' = FreshCamera
            /\ alert' = "none"
       ELSE /\ alert' = "permissionDenied"
            /\ UNCHANGED <<iosPermissionGranted, listeners, runs, camera>>
    /\ lastFrame' = NULL
    /\ UNCHANGED <<appVars, view, ios, call, userLocation, userLocationRef,
                   userHeading, userHeadingRef, canCollect, canCollectRef,
                   modelRef, modelVisible, modelPos, animationFrameIdRef,
                   prevLocationRef, frames, spawnVars, watch, oneShot, events>>

U_modelLoaded(i) == view = "U" /\ ModelLoaded(i)

U_modelLoadError(i) == view = "U" /\ ModelLoadError(i)

U_getUserMediaResolved(i) == view = "U" /\ GetUserMediaResolved(i)

U_getUserMediaRejected(i) == view = "U" /\ GetUserMediaRejected(i)

U_videoPlayRejected(i) == view = "U" /\ VideoPlayRejected(i)

\* one call of animate of run i.  The rotation is written to
\* cameraRef.current, the camera of the latest run; the render is of the
\* run's own camera.
U_frame(i, rs) ==
    LET loc      == userLocationRef
        hdg      == rs[i].hdg
        coin     == rs[i].coin
        computed == modelRef # 0 /\ loc # NULL /\ hdg # NULL
        pos      == U_smoothPosition(modelPos, latLngToPosition(loc, coin))
        turned   == [camera EXCEPT !.yaw = U_smoothHeading(camera, hdg)]
        d        == U_decision(loc, hdg, coin, camera, pos)
        cam2     == IF computed THEN turned ELSE camera
    IN  /\ computed => frames < MaxFrames
        /\ frames' = IF computed THEN frames + 1 ELSE frames
        /\ modelPos' = IF computed THEN pos ELSE modelPos
        /\ camera' = IF i = Len(rs) THEN Rendered(cam2) ELSE cam2
        /\ canCollectRef' = IF computed THEN d.canCollect ELSE canCollectRef
        /\ canCollect' = IF computed /\ Mounted THEN d.canCollect ELSE canCollect
        /\ modelVisible' = IF computed THEN d.visible ELSE modelVisible
        /\ runs' = [rs EXCEPT ![i].raf = TRUE]
        /\ animationFrameIdRef' = i
        /\ lastFrame' = IF computed THEN FrameRecord(i, hdg, d) ELSE IdleFrame(i)
        /\ alert' = "none"
        /\ UNCHANGED <<appVars, view, ios, call, stateVars, modelRef,
                       prevLocationRef, spawnVars, sensorVars, events>>

U_videoPlayResolved(i) ==
    /\ view = "U"
    /\ i \in DOMAIN runs
    /\ runs[i].cam = "playing"
    /\ U_frame(i, [runs EXCEPT ![i].cam = "started"])

U_animate(i) ==
    /\ view = "U"
    /\ i \in DOMAIN runs
    /\ runs[i].raf
    /\ U_frame(i, runs)

U_handleCollect ==
    /\ view = "U"
    /\ Mounted
    /\ canCollect
    /\ IF canCollectRef
       THEN /\ alert' = "collected"
            /\ Unmounted(U_cleanup)
            /\ UNCHANGED spawnVars
       ELSE /\ alert' = "refused"
            /\ lastFrame' = NULL
            /\ UNCHANGED <<appVars, view, ios, call, stateVars, sceneVars,
                           spawnVars, sensorVars, events>>

U_onBack ==
    /\ view = "U"
    /\ Mounted
    /\ alert' = "none"
    /\ Unmounted(U_cleanup)
    /\ UNCHANGED spawnVars

U_Next ==
    \/ \E fix \in Fixes, once \in BOOLEAN :
          U_handlePosition(fix.place, fix.heading, once)
    \/ \E event \in OrientationEvents : U_handleOrientation(event)
    \/ \E response \in { "granted", "denied" } : U_requestIOSPermission(response)
    \/ \E i \in DOMAIN runs : U_modelLoaded(i)
    \/ \E i \in DOMAIN runs : U_modelLoadError(i)
    \/ \E i \in DOMAIN runs : U_getUserMediaResolved(i)
    \/ \E i \in DOMAIN runs : U_getUserMediaRejected(i)
    \/ \E i \in DOMAIN runs : U_videoPlayResolved(i)
    \/ \E i \in DOMAIN runs : U_videoPlayRejected(i)
    \/ \E i \in DOMAIN runs : U_animate(i)
    \/ U_handleCollect
    \/ U_onBack

-----------------------------------------------------------------------------
(* View of View.jsx (V) *)

\* SMOOTHING_FACTOR, in percent
V_SMOOTHING_FACTOR == 15

\* positions the geolocation service reports to View.jsx: those of the other
\* views and one 3 m south of coin 1, inside COLLECTION_DISTANCE
V_Places == Places \cup { Place(-3, 0) }

\* smoothValue of View.jsx: prev * (1 - factor) + next * factor, each product
\* rounded to the grid as it is computed
V_smoothValue(prev, next, factor) ==
    IF prev = NULL THEN next
    ELSE IF prev = NaN THEN NaN
    ELSE Num((prev.num * (100 - factor)) \div 100
             + (ToNumber(next) * factor) \div 100)

\* heading computed by handleOrientation of View.jsx; NULL is undefined
V_EventHeading(event) ==
    IF event.webkitCompassHeading # NULL THEN event.webkitCompassHeading
    ELSE IF event.alpha # NULL THEN Num(JsMod(360 - event.alpha.num, 360))
    ELSE NULL

\* cleanups of the scene effect and of the camera effect
V_cleanup == SceneCleanup(runs, animationFrameIdRef)

\* renderer.render: the camera of View.jsx stands at the origin
V_Rendered(cam) == [cam EXCEPT !.mz = 0, !.myaw = cam.yaw]

\* watchPosition callback: the location is smoothed towards the fix
V_handlePosition(p) ==
    /\ view = "V"
    /\ watch
    /\ events < MaxEvents
    /\ events' = events + 1
    /\ userLocation' =
          IF userLocation = NULL THEN p
          ELSE Place(V_smoothValue(Num(userLocation.latitude), Num(p.latitude),
                                   V_SMOOTHING_FACTOR).num,
                     V_smoothValue(Num(userLocation.longitude), Num(p.longitude),
                                   V_SMOOTHING_FACTOR).num)
    /\ lastFrame' = NULL
    /\ alert' = "none"
    /\ UNCHANGED <<appVars, view, ios, call, iosPermissionGranted, userLocationRef,
                   userHeading, userHeadingRef, sceneVars, spawnVars,
                   sensorVars>>

V_handleOrientation(event) ==
    /\ view = "V"
    /\ Listening
    /\ IF Mounted /\ V_EventHeading(event) # NULL
       THEN /\ events < MaxEvents
            /\ events' = events + 1
            /\ userHeading' = V_smoothValue(userHeading, V_EventHeading(event),
                                            V_SMOOTHING_FACTOR)
       ELSE UNCHANGED <<events, userHeading>>
    /\ lastFrame' = NULL
    /\ alert' = "none"
    /\ UNCHANGED <<appVars, view, ios, call, iosPermissionGranted, userLocation,
                   userLocationRef, userHeadingRef, sceneVars, spawnVars,
                   sensorVars>>

\* requestCompassPermission: setIosPermissionGranted(permission === 'granted')
V_requestCompassPermission(response) ==
    /\ view = "V"
    /\ Mounted
    /\ ios
    /\ ~iosPermissionGranted
    /\ iosPermissionGranted' = (response = "granted")
    /\ listeners' = IF response = "granted"
                    THEN RemoveListener(listeners, "deviceorientation", FALSE, mounts)
                           \cup V_OrientationListeners(TRUE, mounts)
                    ELSE listeners
    /\ lastFrame' = NULL
    /\ alert' = "none"
    /\ UNCHANGED <<appVars, view, ios, call, userLocation, userLocationRef,
                   userHeading, userHeadingRef, sceneVars, spawnVars, watch,
                   oneShot, events>>

\* loader.load onLoad: coinRef.current = model
V_modelLoaded(i) == view = "V" /\ ModelLoaded(i)

\* the load fails; View.jsx passes no onError
V_modelLoadError(i) == view = "V" /\ ModelLoadError(i)

\* one call of animate.  startAnimationLoop is the one of the first render,
\* so animate closes over the userLocation and userHeading of that render.
V_frame(i, rs) ==
    LET loc      == NULL
        hdg      == rs[i].hdg
        computed == loc # NULL /\ hdg # NULL /\ modelRef # 0
        d        == V_decision(loc, hdg, rs[i].coin, camera)
    IN  /\ canCollect' = IF computed /\ Mounted THEN d.canCollect ELSE canCollect
        /\ modelVisible' = IF computed THEN d.visible ELSE modelVisible
        /\ camera' = V_Rendered(IF computed
                                THEN [camera EXCEPT !.yaw = ToNumber(hdg)]
                                ELSE camera)
        /\ runs' = [rs EXCEPT ![i].raf = TRUE]
        /\ animationFrameIdRef' = i
        /\ lastFrame' = IF computed THEN FrameRecord(i, hdg, d) ELSE IdleFrame(i)
        /\ alert' = "none"
        /\ UNCHANGED <<appVars, view, ios, call, stateVars, canCollectRef, modelRef,
                       modelPos, prevLocationRef, frames, spawnVars,
                       sensorVars, events>>

\* setupCamera: getUserMedia resolves.  video.play() is not awaited;
\* containerRef.current.appendChild throws once the view has unmounted and
\* the catch block shows the camera alert.
V_getUserMediaResolved(i) ==
    /\ view = "V"
    /\ i \in DOMAIN runs
    /\ runs[i].cam = "pending"
    /\ IF Mounted
       THEN V_frame(i, [runs EXCEPT ![i].cam = "started"])
       ELSE /\ runs' = [runs EXCEPT ![i].cam = "failed"]
            /\ alert' = "cameraRequired"
            /\ lastFrame' = NULL
            /\ UNCHANGED <<appVars, view, ios, call, stateVars, canCollect,
                           canCollectRef, modelRef, modelVisible, modelPos,
                           camera, animationFrameIdRef, prevLocationRef,
                           frames, spawnVars, sensorVars, events>>

V_getUserMediaRejected(i) == view = "V" /\ GetUserMediaRejected(i)

V_animate(i) ==
    /\ view = "V"
    /\ i \in DOMAIN runs
    /\ runs[i].raf
    /\ V_frame(i, runs)

\* a handleCollect that does not look at canCollect
V_handleCollect_unguarded ==
    /\ view = "V"
    /\ Mounted
    /\ alert' = "collected"
    /\ Unmounted(V_cleanup)
    /\ UNCHANGED spawnVars

\* the collect button is never disabled; handleCollect reads the state
V_handleCollect ==
    /\ view = "V"
    /\ Mounted
    /\ IF canCollect
       THEN /\ alert' = "collected"
            /\ Unmounted(V_cleanup)
            /\ UNCHANGED spawnVars
       ELSE /\ alert' = "none"
            /\ lastFrame' = NULL
            /\ UNCHANGED <<appVars, view, ios, call, stateVars, sceneVars,
                           spawnVars, sensorVars, events>>

V_onBack ==
    /\ view = "V"
    /\ Mounted
    /\ alert' = "none"
    /\ Unmounted(V_cleanup)
    /\ UNCHANGED spawnVars

V_Next ==
    \/ \E p \in V_Places : V_handlePosition(p)
    \/ \E event \in OrientationEvents : V_handleOrientation(event)
    \/ \E response \in { "granted", "denied" } : V_requestCompassPermission(response)
    \/ \E i \in DOMAIN runs : V_modelLoaded(i)
    \/ \E i \in DOMAIN runs : V_modelLoadError(i)
    \/ \E i \in DOMAIN runs : V_getUserMediaResolved(i)
    \/ \E i \in DOMAIN runs : V_getUserMediaRejected(i)
    \/ \E i \in DOMAIN runs : V_animate(i)
    \/ V_handleCollect
    \/ V_onBack

-----------------------------------------------------------------------------
(* PokemonGoStyleAR of ARView.jsx (PG) *)

SHOW_MODEL_DISTANCE == 10
MAX_ANGLE_DIFF == 45

\* offsets Math.random() gives a spawn: 10 m north, 60 m south
SpawnOffsets == { [lat |-> 10, lng |-> 0], [lat |-> -60, lng |-> 0] }

\* fixes the geolocation service reports to PokemonGoStyleAR
PG_Fixes == { fix \in Fixes : fix.place.latitude >= -100 }

\* generateSpawnPoints with the random offsets offs
generateSpawnPoints(loc, offs) ==
    [i \in SpawnIds |-> [id     |-> i,
                         lat    |-> loc.latitude + offs[i].lat,
                         lng    |-> loc.longitude + offs[i].lng,
                         caught |-> FALSE]]

\* the locals of animate for one spawn
PG_decision(loc, hdg, spawn, cam) ==
    LET dist      == haversineDistance(loc.latitude, loc.longitude,
                                       spawn.lat, spawn.lng)
        bearing   == calculateBearing(loc.latitude, loc.longitude,
                                      spawn.lat, spawn.lng)
        angleDiff == AngleDiff(bearing, ToNumber(hdg))
        onScreen  == OnScreen(latLngToPosition(loc, spawn), cam)
    IN  [distance  |-> dist,
         angleDiff |-> angleDiff,
         onScreen  |-> onScreen,
         visible   |-> dist <= SHOW_MODEL_DISTANCE /\ angleDiff <= MAX_ANGLE_DIFF
                       /\ onScreen]

\* cleanup of the scene effect, on the loads: the loads of the scene go on
Abandon(ls) ==
    [id \in SpawnIds |->
        [live |-> "none",
         dead |-> Min(MaxDead, ls[id].dead
                                 + IF ls[id].live = "pending" THEN 1 ELSE 0)]]

\* spawnPoints.forEach(spawn => loader.load(...)) of a scene effect run
Issue(ls, sp) ==
    [id \in SpawnIds |->
        IF id \in DOMAIN sp THEN [ls[id] EXCEPT !.live = "pending"] ELSE ls[id]]

\* the scene effect runs (again): cleanup of the run before on the loads ls0,
\* a new scene and camera, the loads of the spawn points sp, and the first
\* call of animate, which finds no model registered
PG_rerun(ls0, sp, hdg) ==
    /\ loads' = Issue(Abandon(ls0), sp)
    /\ spawnModelsRef' = NoSpawnModels
    /\ camera' = Rendered([FreshCamera EXCEPT !.yaw = ToNumber(hdg)])
    /\ runs' = [runs EXCEPT ![1].raf = TRUE, ![1].hdg = hdg]
    /\ animationFrameIdRef' = 1

\* geolocation callback.  The render after it runs the spawn effect, which
\* sets new spawn points, and the scene effect with the spawn points of the
\* render; the render after setSpawnPoints runs the scene effect again.
PG_handlePosition(p, h, once, offs) ==
    /\ view = "PG"
    /\ IF once THEN oneShot ELSE watch
    /\ oneShot' = IF once THEN FALSE ELSE oneShot
    /\ IF Mounted
       THEN LET loc == IF userLocation = NULL THEN p
                       ELSE Place(smoothValue(Num(userLocation.latitude),
                                              Num(p.latitude), 20).num,
                                  smoothValue(Num(userLocation.longitude),
                                              Num(p.longitude), 20).num)
                hdg == IF h # NULL THEN smoothValue(userHeading, h, 15)
                       ELSE userHeading
                sp  == generateSpawnPoints(loc, offs)
            IN  /\ events < MaxEvents
                /\ events' = events + 1
                /\ userLocation' = loc
                /\ userLocationRef' = loc
                /\ userHeading' = hdg
                /\ spawnPoints' = sp
                /\ PG_rerun(Issue(Abandon(loads), spawnPoints), sp, hdg)
       ELSE UNCHANGED <<events, userLocation, userLocationRef, userHeading,
                        spawnPoints, loads, spawnModelsRef, camera, runs,
                        animationFrameIdRef>>
    /\ lastFrame' = NULL
    /\ alert' = "none"
    /\ UNCHANGED <<appVars, view, ios, call, iosPermissionGranted, userHeadingRef,
                   canCollect, canCollectRef, modelRef, modelVisible,
                   modelPos, prevLocationRef, frames, closestSpawn,
                   listeners, watch>>

\* orientation callback: userHeading is a dependency of the scene effect,
\* which returns at once while no location is known
PG_handleOrientation(event) ==
    /\ view = "PG"
    /\ Listening
    /\ LET heading == EventHeading(event)
           hdg     == smoothValue(userHeading, heading, 15)
       IN  IF Mounted /\ heading # NULL
           THEN /\ events < MaxEvents
                /\ events' = events + 1
                /\ userHeading' = hdg
                /\ IF hdg # userHeading /\ userLocation # NULL
                   THEN PG_rerun(loads, spawnPoints, hdg)
                   ELSE UNCHANGED <<loads, spawnModelsRef, camera, runs,
                                    animationFrameIdRef>>
           ELSE UNCHANGED <<events, userHeading, loads, spawnModelsRef,
                            camera, runs, animationFrameIdRef>>
    /\ lastFrame' = NULL
    /\ alert' = "none"
    /\ UNCHANGED <<appVars, view, ios, call, iosPermissionGranted, userLocation,
                   userLocationRef, userHeadingRef, canCollect,
                   canCollectRef, modelRef, modelVisible, modelPos,
                   prevLocationRef, frames, spawnPoints, closestSpawn,
                   sensorVars>>

\* loader onLoad for spawn id, of the live scene or of a torn-down one:
\* spawnModelsRef.current[spawn.id] = model
PG_modelLoaded(id, live) ==
    /\ view = "PG"
    /\ IF live THEN loads[id].live = "pending" ELSE loads[id].dead > 0
    /\ loads' = IF live THEN [loads EXCEPT ![id].live = "done"]
                ELSE [loads EXCEPT ![id].dead = @ - 1]
    /\ spawnModelsRef' = [spawnModelsRef EXCEPT
                             ![id] = [live |-> live, visible |-> FALSE]]
    /\ lastFrame' = NULL
    /\ alert' = "none"
    /\ UNCHANGED <<appVars, view, ios, call, stateVars, sceneVars, spawnPoints,
                   closestSpawn, sensorVars, events>>

\* loader onError of the live scene
PG_modelLoadError(id) ==
    /\ view = "PG"
    /\ loads[id].live = "pending"
    /\ loads' = [loads EXCEPT ![id].live = "failed"]
    /\ lastFrame' = NULL
    /\ alert' = "none"
    /\ UNCHANGED <<appVars, view, ios, call, stateVars, sceneVars, spawnPoints,
                   closestSpawn, spawnModelsRef, sensorVars, events>>

\* spawns for which animate computes the decision
PG_considered ==
    { id \in DOMAIN spawnPoints :
         spawnModelsRef[id] # NULL /\ ~spawnPoints[id].caught }

RECURSIVE PG_closest(_, _, _, _)
\* the closest-spawn scan of animate from index k on: the index, 0 for null
PG_closest(loc, k, best, bestDist) ==
    IF k > Len(spawnPoints) THEN best
    ELSE LET dist == haversineDistance(loc.latitude, loc.longitude,
                                       spawnPoints[k].lat, spawnPoints[k].lng)
         IN  IF k \in PG_considered /\ (bestDist = -1 \/ dist < bestDist)
             THEN PG_closest(loc, k + 1, k, dist)
             ELSE PG_closest(loc, k + 1, best, bestDist)

\* the browser runs the requested frame of the live scene
PG_animate ==
    /\ view = "PG"
    /\ Len(runs) > 0
    /\ runs[1].raf
    /\ LET loc     == userLocationRef
           hdg     == runs[1].hdg
           dec(id) == PG_decision(loc, hdg, spawnPoints[id], camera)
           closest == PG_closest(loc, 1, 0, -1)
       IN  /\ spawnModelsRef' =
                 [id \in SpawnIds |->
                     IF loc # NULL /\ id \in PG_considered
                     THEN [spawnModelsRef[id] EXCEPT !.visible = dec(id).visible]
                     ELSE spawnModelsRef[id]]
           /\ closestSpawn' =
                 IF loc # NULL /\ closest # 0
                 THEN [id        |-> closest,
                       caught    |-> spawnPoints[closest].caught,
                       distance  |-> dec(closest).distance,
                       angleDiff |-> dec(closest).angleDiff,
                       onScreen  |-> dec(closest).onScreen]
                 ELSE closestSpawn
           /\ camera' = IF loc # NULL
                        THEN Rendered([camera EXCEPT !.yaw = ToNumber(hdg)])
                        ELSE Rendered(camera)
           /\ lastFrame' =
                 [run      |-> 1,
                  computed |-> loc # NULL /\ PG_considered # {},
                  heading  |-> hdg,
                  spawns   |-> [id \in SpawnIds |->
                                   IF loc # NULL /\ id \in PG_considered
                                   THEN dec(id) ELSE NULL]]
    /\ animationFrameIdRef' = 1
    /\ alert' = "none"
    /\ UNCHANGED <<appVars, view, ios, call, stateVars, canCollect, canCollectRef,
                   modelRef, modelVisible, modelPos, runs, prevLocationRef,
                   frames, spawnPoints, loads, sensorVars, events>>

\* the catch update with the flag flipped instead of set
markCaught_toggle(prev, spawnId) ==
    [k \in DOMAIN prev |->
        IF prev[k].id = spawnId
        THEN [prev[k] EXCEPT !.caught = ~prev[k].caught]
        ELSE prev[k]]

\* the updater handleClick hands to setSpawnPoints:
\* prev.map(spawn => spawn.id === spawnId ? { ...spawn, caught: true } : spawn)
markCaught(prev, spawnId) ==
    [k \in DOMAIN prev |->
        IF prev[k].id = spawnId
        THEN [prev[k] EXCEPT !.caught = TRUE]
        ELSE prev[k]]

\* handleClick with the filter on the visible flag left out
PG_handleClick_unfiltered(id) ==
    /\ view = "PG"
    /\ Mounted
    /\ userLocation # NULL
    /\ Len(spawnPoints) > 0
    /\ spawnModelsRef[id] # NULL
    /\ LET sp == markCaught(spawnPoints, id)
       IN  /\ spawnPoints' = sp
           /\ PG_rerun(loads, sp, userHeading)
    /\ alert' = "caught"
    /\ lastFrame' = NULL
    /\ UNCHANGED <<appVars, view, ios, call, stateVars, canCollect, canCollectRef,
                   modelRef, modelVisible, modelPos, prevLocationRef, frames,
                   closestSpawn, sensorVars, events>>

\* a tap whose ray meets the visible model registered for spawn id
PG_handleClick(id) ==
    /\ view = "PG"
    /\ Mounted
    /\ userLocation # NULL
    /\ Len(spawnPoints) > 0
    /\ spawnModelsRef[id] # NULL
    /\ spawnModelsRef[id].visible
    /\ LET sp == markCaught(spawnPoints, id)
       IN  /\ spawnPoints' = sp
           /\ PG_rerun(loads, sp, userHeading)
    /\ alert' = "caught"
    /\ lastFrame' = NULL
    /\ UNCHANGED <<appVars, view, ios, call, stateVars, canCollect, canCollectRef,
                   modelRef, modelVisible, modelPos, prevLocationRef, frames,
                   closestSpawn, sensorVars, events>>

\* a tap that returns early (no camera yet or no spawn points) or whose ray
\* meets none of the visible registered models: handleClick changes nothing
PG_handleClickMissed ==
    /\ view = "PG"
    /\ Mounted
    /\ alert' = "none"
    /\ lastFrame' = NULL
    /\ UNCHANGED <<appVars, view, ios, call, stateVars, sceneVars, spawnVars,
                   sensorVars, events>>

\* startCamera: getUserMedia resolves; the stream is attached if the video
\* element is still there
PG_getUserMediaResolved ==
    /\ view = "PG"
    /\ Len(runs) > 0
    /\ runs[1].cam = "pending"
    /\ runs' = [runs EXCEPT ![1].cam = IF Mounted THEN "playing" ELSE "dropped"]
    /\ lastFrame' = NULL
    /\ alert' = "none"
    /\ UNCHANGED <<appVars, view, ios, call, stateVars, canCollect, canCollectRef,
                   modelRef, modelVisible, modelPos, camera,
                   animationFrameIdRef, prevLocationRef, frames, spawnVars,
                   sensorVars, events>>

PG_getUserMediaRejected == view = "PG" /\ GetUserMediaRejected(1)

\* await videoRef.current.play() resolves
PG_videoPlayResolved ==
    /\ view = "PG"
    /\ Len(runs) > 0
    /\ runs[1].cam = "playing"
    /\ runs' = [runs EXCEPT ![1].cam = "started"]
    /\ lastFrame' = NULL
    /\ alert' = "none"
    /\ UNCHANGED <<appVars, view, ios, call, stateVars, canCollect, canCollectRef,
                   modelRef, modelVisible, modelPos, camera,
                   animationFrameIdRef, prevLocationRef, frames, spawnVars,
                   sensorVars, events>>

PG_videoPlayRejected == view = "PG" /\ VideoPlayRejected(1)

\* the back button.  The scene effect has a cleanup once a location is
\* known.  The camera cleanup reads the video element's ref, which React
\* may have detached before the cleanup runs.
PG_onBack ==
    /\ view = "PG"
    /\ Mounted
    /\ alert' = "none"
    /\ \E attached \in BOOLEAN :
          LET r1 == IF userLocation # NULL
                    THEN CancelFrame(runs, animationFrameIdRef) ELSE runs
              r2 == IF attached /\ r1[1].cam \in { "playing", "started", "failed" }
                    THEN [r1 EXCEPT ![1].stopped = TRUE] ELSE r1
          IN  Unmounted([r2 EXCEPT ![1].torn = TRUE])
    /\ spawnPoints' = << >>
    /\ closestSpawn' = NULL
    /\ spawnModelsRef' = IF userLocation # NULL THEN NoSpawnModels
                         ELSE spawnModelsRef
    /\ loads' = IF userLocation # NULL THEN Abandon(loads) ELSE loads

PG_Next ==
    \/ \E fix \in PG_Fixes, once \in BOOLEAN, offs \in [SpawnIds -> SpawnOffsets] :
          PG_handlePosition(fix.place, fix.heading, once, offs)
    \/ \E event \in OrientationEvents : PG_handleOrientation(event)
    \/ \E id \in SpawnIds, live \in BOOLEAN : PG_modelLoaded(id, live)
    \/ \E id \in SpawnIds : PG_modelLoadError(id)
    \/ PG_animate
    \/ \E id \in SpawnIds : PG_handleClick(id)
    \/ PG_handleClickMissed
    \/ PG_getUserMediaResolved
    \/ PG_getUserMediaRejected
    \/ PG_videoPlayResolved
    \/ PG_videoPlayRejected
    \/ PG_onBack

-----------------------------------------------------------------------------
(* The next-state relation *)

Map_Next ==
    \/ \E p \in MapPlaces : Map_watchPosition(p)
    \/ \E k \in DOMAIN COINS : Map_markerClick(k)
    \/ Map_handleARClick

Next ==
    \/ Map_Next
    \/ A1_Next
    \/ A2_Next
    \/ U_Next
    \/ V_Next
    \/ PG_Next

Spec == Init /\ [][Next]_vars

-----------------------------------------------------------------------------
(* The helpers applied on their own.  A step applies one helper to          *)
(* arguments drawn from the sets below and leaves the call in the variable  *)
(* call; the components stay as Init leaves them.                            *)

progVars == <<mode, selectedCoin, mapUserLocation, alert, mounts, view, ios,
              iosPermissionGranted, userLocation, userLocationRef,
              userHeading, userHeadingRef, canCollect, canCollectRef,
              modelRef, modelVisible, modelPos, camera, runs,
              animationFrameIdRef, listeners, watch, oneShot,
              prevLocationRef, spawnPoints, closestSpawn, spawnModelsRef,
              loads, frames, events, lastFrame>>

\* the last step applied the helper f
Called(f) == call # NULL /\ call.fn = f

\* longest spawn list handed to the catch update
MaxList == 2

\* spawn lists as generateSpawnPoints numbers them, with any caught flags
SpawnLists ==
    UNION { { [k \in 1 .. n |-> [id |-> k, lat |-> 10 * k, lng |-> 0,
                                 caught |-> c[k]]] : c \in [1 .. n -> BOOLEAN] }
            : n \in 0 .. MaxList }

\* setSpawnPoints(prev => ...) of handleClick, applied once and once more
Call_markCaught(prev, spawnId) ==
    /\ call' = [fn      |-> "markCaught",
                prev    |-> prev,
                spawnId |-> spawnId,
                once    |-> markCaught(prev, spawnId),
                twice   |-> markCaught(markCaught(prev, spawnId), spawnId)]
    /\ UNCHANGED progVars

\* user locations of the map: far from and near to coins, on a coin, and
\* one at the same distance from coins 3 and 5
ScanPlaces ==
    MapPlaces \cup { Place(15530, -40110), Place(15534, -40109),
                     Place(15529, -40106), Place(15531, -40108),
                     Place(5000, -100), Place(-6000, -4000),
                     Place(100000, 100000) }

\* the scan of handleARClick and its gate, for the user location loc
Call_Map_closest(loc) ==
    /\ call' = [fn      |-> "Map_closest",
                loc     |-> loc,
                result  |-> Map_closest(loc, 1, 0, -1),
                entered |-> LET c == Map_closest(loc, 1, 0, -1)
                            IN  c[1] # 0 /\ c[2] < MAP_AR_DISTANCE]
    /\ UNCHANGED progVars

\* values handed to the smoothing helpers: numbers, null and NaN
SmoothSamples == { Num(n) : n \in { -50, 0, 7, 100, 359 } }

\* smoothing factors, in percent
SmoothFactors == { 0, 15, 20, 50, 100 }

\* smoothValue of the ARView.jsx and UpdateView.jsx copies or of View.jsx,
\* applied once and once more to its own result
Call_smoothValue(copy, prev, next, factor) ==
    LET smooth(p) == IF copy = "View" THEN V_smoothValue(p, next, factor)
                     ELSE smoothValue(p, next, factor)
    IN  /\ call' = [fn     |-> "smoothValue",
                    copy   |-> copy,
                    prev   |-> prev,
                    next   |-> next,
                    factor |-> factor,
                    result |-> smooth(prev),
                    again  |-> smooth(smooth(prev))]
        /\ UNCHANGED progVars

\* locations of two consecutive frames: the same, 3 m and 40 m apart
SpeedPlaces == { Place(0, 0), Place(0, 3), Place(40, 0) }

\* milliseconds between two frames: none, a frame, a second, and a clock
\* set back between the frames
FrameDeltas == { -1000, -16, 0, 16, 1000 }

\* the speed and the smoothing factor animate computes for a frame
Call_smoothingFactor(current, prev, deltaTime) ==
    LET speed == getSpeed(current, prev, deltaTime)
    IN  /\ call' = [fn        |-> "smoothingFactor",
                    current   |-> current,
                    prev      |-> prev,
                    deltaTime |-> deltaTime,
                    speed     |-> speed,
                    factor    |-> A2_smoothingFactor(speed)]
        /\ UNCHANGED progVars

\* bearings and headings in [0, 360), around the fold and the wrap
AngleSamples == { 0, 1, 90, 179, 180, 181, 270, 359 }

\* the angle between bearing and heading as one of the views computes it
Call_angleDiff(copy, bearing, heading) ==
    /\ call' = [fn      |-> "angleDiff",
                copy    |-> copy,
                bearing |-> bearing,
                heading |-> heading,
                result  |-> CASE copy = "View" -> V_angleDiff(bearing, heading)
                              [] copy = "A2"   -> A2_angle(bearing, heading)
                              [] OTHER         -> AngleDiff(bearing, heading)]
    /\ UNCHANGED progVars

\* coordinates of the points handed to the geodesy helpers, in metres
GeoSamples == { -20001, -1, 0, 100 }

GeoPoints == { Place(lat, lng) : lat \in GeoSamples, lng \in GeoSamples }

\* calculateBearing from p to q, with the atan2 result it normalises
Call_calculateBearing(p, q) ==
    /\ call' = [fn     |-> "calculateBearing",
                p      |-> p,
                q      |-> q,
                brng   |-> Atan2Deg(q.longitude - p.longitude,
                                    q.latitude - p.latitude),
                result |-> calculateBearing(p.latitude, p.longitude,
                                            q.latitude, q.longitude)]
    /\ UNCHANGED progVars

\* haversineDistance from p to q and from q to p
Call_haversineDistance(p, q) ==
    /\ call' = [fn       |-> "haversineDistance",
                p        |-> p,
                q        |-> q,
                result   |-> haversineDistance(p.latitude, p.longitude,
                                               q.latitude, q.longitude),
                reversed |-> haversineDistance(q.latitude, q.longitude,
                                               p.latitude, p.longitude)]
    /\ UNCHANGED progVars

HelperNext ==
    \/ \E prev \in SpawnLists, spawnId \in 1 .. MaxList + 1 :
          Call_markCaught(prev, spawnId)
    \/ \E loc \in ScanPlaces : Call_Map_closest(loc)
    \/ \E copy \in { "ARView", "View" },
          prev \in SmoothSamples \cup { NULL, NaN },
          next \in SmoothSamples, factor \in SmoothFactors :
          Call_smoothValue(copy, prev, next, factor)
    \/ \E current \in SpeedPlaces, prev \in SpeedPlaces \cup { NULL },
          deltaTime \in FrameDeltas :
          Call_smoothingFactor(current, prev, deltaTime)
    \/ \E copy \in { "PG", "A2", "View" },
          bearing \in AngleSamples, heading \in AngleSamples :
          Call_angleDiff(copy, bearing, heading)
    \/ \E p \in GeoPoints, q \in GeoPoints : Call_calculateBearing(p, q)
    \/ \E p \in GeoPoints, q \in GeoPoints : Call_haversineDistance(p, q)

HelperSpec == Init /\ [][HelperNext]_vars

-----------------------------------------------------------------------------
(* Properties.  A frame's locals are read from lastFrame, which holds them   *)
(* in the state right after the frame and is NULL after any other step.     *)

\* ids of the spawn points marked caught
CaughtIds ==
    { spawnPoints[k].id : k \in { j \in DOMAIN spawnPoints : spawnPoints[j].caught } }

\* C1: in PokemonGoStyleAR a spawn id that is caught stays caught, and its
\* model stays invisible, over every later step of the mounted view
\* (position update, heading update, frame or tap).
C1_CaughtIsTerminal ==
    [][ (view = "PG" /\ Mounted /\ Mounted') =>
           \A id \in CaughtIds :
              /\ id \in CaughtIds'
              /\ spawnModelsRef'[id] # NULL => ~spawnModelsRef'[id].visible ]_vars

\* distance CoinMap computes from the location loc to the coin
MapDistance(loc, coin) ==
    utilsHaversineDistance(loc, [latitude |-> coin.lat, longitude |-> coin.lng])

ShowDistance(v) ==
    CASE v = "PG" -> SHOW_MODEL_DISTANCE
      [] v = "A1" -> A1_SHOW_DISTANCE
      [] v = "A2" -> A2_SHOW_DISTANCE
      [] v = "U"  -> U_SHOW_DISTANCE
      [] v = "V"  -> MAX_DISTANCE

MaxAngle(v) ==
    CASE v = "PG" -> MAX_ANGLE_DIFF
      [] v = "A1" -> A1_MAX_ANGLE
      [] v = "A2" -> A2_MAX_ANGLE
      [] v = "U"  -> U_MAX_ANGLE
      [] v = "V"  -> VIEW_ANGLE

\* a frame just ran and computed the decision
FrameComputed == lastFrame # NULL /\ lastFrame.computed

\* the decisions the frame that just ran computed, each with the visible
\* flag it left on the model: one per considered spawn in PokemonGoStyleAR
FrameDecisions ==
    IF ~FrameComputed THEN {}
    ELSE IF view = "PG"
    THEN { << spawnModelsRef[id].visible, lastFrame.spawns[id] >> :
              id \in { k \in SpawnIds : lastFrame.spawns[k] # NULL } }
    ELSE { << modelVisible, lastFrame >> }

CollectDistance(v) ==
    CASE v = "A1" -> A1_COLLECT_DISTANCE
      [] v = "A2" -> A2_SHOW_DISTANCE
      [] v = "U"  -> U_COLLECT_DISTANCE
      [] v = "V"  -> COLLECTION_DISTANCE

\* the collectible flags agree with the value rule after the frame that ran:
\* the ref always, the state while the view is mounted
CollectFlagsAre(rule) ==
    /\ view # "V" => canCollectRef = rule
    /\ Mounted => canCollect = rule

\* C4 as stated: in every single-coin view, after a frame that computes the
\* decision, the collectible flag is true iff distance <= the view's collect
\* distance, whatever the angle and the on-screen test say.
C4_CollectIffDistance ==
    (view \in SingleCoinViews /\ FrameComputed) =>
        CollectFlagsAre(lastFrame.distance <= CollectDistance(view))

\* C4 (amended): after a frame that computes the decision the collectible
\* flag is true iff distance <= 100 in the first ARView copy and UpdateView;
\* in the second ARView copy it is the visible flag (angle <= 90 and
\* distance <= 100), and in View.jsx it is distance < 5 and angle < 15.
C4_CollectRule ==
    (view \in SingleCoinViews /\ FrameComputed) =>
        CollectFlagsAre(
            CASE view = "A2" ->
                   /\ lastFrame.angleDiff <= A2_MAX_ANGLE
                   /\ lastFrame.distance <= A2_SHOW_DISTANCE
              [] view = "V" ->
                   /\ lastFrame.distance < COLLECTION_DISTANCE
                   /\ lastFrame.angleDiff < V_COLLECT_ANGLE
              [] OTHER ->
                   lastFrame.distance <= CollectDistance(view))

\* C4 is met: a frame of UpdateView left the coin collectible by its
\* distance alone, the model being invisible
C4_CollectibleInvisible ==
    /\ view = "U"
    /\ Mounted
    /\ FrameComputed
    /\ canCollect
    /\ canCollectRef
    /\ ~modelVisible
    /\ lastFrame.angleDiff > U_MAX_ANGLE

\* the frame that just ran belongs to the scene the mounted view shows
LiveFrame == Mounted /\ lastFrame # NULL /\ lastFrame.run = Len(runs)

\* angle between the heading hdg and the bearing from loc to the coin
FacingAngle(loc, hdg, coin) ==
    FoldAngle(Abs(JsMod((CoinBearing(loc, coin) - hdg.num) + 360, 360)))

\* the sensor state holds a position within the view's collect distance and
\* a heading that faces the coin within the view's angle
InReach ==
    /\ userLocation # NULL
    /\ userHeading # NULL
    /\ IF view = "V"
       THEN /\ CoinDistance(userLocation, selectedCoin) < COLLECTION_DISTANCE
            /\ FacingAngle(userLocation, userHeading, selectedCoin) < V_COLLECT_ANGLE
       ELSE /\ CoinDistance(userLocation, selectedCoin) <= CollectDistance(view)
            /\ FacingAngle(userLocation, userHeading, selectedCoin) <= MaxAngle(view)

\* C5: in a single-coin view whose model has loaded and whose camera has
\* started, a frame that runs while the sensor state holds a position within
\* collect distance and a heading facing the coin leaves the coin collectible
\* and the collect button enabled (the collect rule of a frame has no memory,
\* so the first such frame decides for all that follow).
C5_CollectionReachable ==
    ( /\ view \in SingleCoinViews
      /\ LiveFrame
      /\ runs[Len(runs)].load = "done"
      /\ runs[Len(runs)].cam = "started"
      /\ InReach )
    => canCollect

\* C6: a frame of the mounted view that computes the decision after a
\* heading was delivered computes it, and the camera yaw, from that heading.
C6_FrameReadsLatestHeading ==
    (LiveFrame /\ lastFrame.computed /\ userHeading # NULL) =>
        lastFrame.heading = userHeading

\* some model of the view is visible
ModelShown ==
    IF view = "PG"
    THEN \E id \in SpawnIds : spawnModelsRef[id] # NULL /\ spawnModelsRef[id].visible
    ELSE modelVisible

\* every camera request of the view was denied
CameraDenied == Len(runs) > 0 /\ \A i \in DOMAIN runs : runs[i].cam = "denied"

\* C7: while no position has been delivered, or no heading has been
\* delivered, or the camera was denied, no model of the mounted view is
\* visible.
C7_SilentDegradation ==
    (Mounted /\ (userLocation = NULL \/ userHeading = NULL \/ CameraDenied)) =>
        ~ModelShown

\* the AR view has been left
Left == mounts > 0 /\ ~Mounted

\* C8: once the AR view has been left no frame callback is scheduled and
\* every camera stream a request of the view obtained has its tracks stopped.
C8_CleanupStopsEverything ==
    Left => \A i \in DOMAIN runs :
               /\ ~runs[i].raf
               /\ runs[i].cam \in HasStream => runs[i].stopped

\* C9: once the AR view has been left its geolocation watch is cleared and
\* none of its device-orientation listeners is registered.
C9_SensorsReleased ==
    Left => /\ ~watch
            /\ { l \in listeners : l.gen = mounts } = {}

\* C10: an AR view requests the camera exactly once, whatever positions and
\* headings arrive.
C10_CameraRequestedOnce ==
    mounts > 0 => Len(runs) = 1

\* C11: the catch update applied twice for one spawn id gives the list it
\* gives applied once: same length, the spawn with that id caught, every
\* other spawn as it was.
C11_CatchIdempotent ==
    Called("markCaught") =>
        /\ call.twice = call.once
        /\ DOMAIN call.once = DOMAIN call.prev
        /\ \A k \in DOMAIN call.prev :
              call.once[k] = IF call.prev[k].id = call.spawnId
                             THEN [call.prev[k] EXCEPT !.caught = TRUE]
                             ELSE call.prev[k]

\* C11 is met: the update caught the first of two uncaught spawns
C11_CaughtOne ==
    /\ Called("markCaught")
    /\ Len(call.prev) = 2
    /\ call.spawnId = 1
    /\ ~call.prev[1].caught /\ ~call.prev[2].caught
    /\ call.twice[1].caught /\ ~call.twice[2].caught

\* a frame decision d, with the visible flag it left, counts a distance equal
\* to the show threshold or to the collect distance of view v as inside
InclusiveFrame(v, flag, d) ==
    /\ ( /\ d.distance = ShowDistance(v)
         /\ IF v = "V" THEN d.angleDiff < VIEW_ANGLE
            ELSE d.angleDiff <= MaxAngle(v)
         /\ (v \in { "A2", "V" } \/ d.onScreen) ) => flag
    /\ ( /\ v \in SingleCoinViews
         /\ d.distance = CollectDistance(v)
         /\ (v = "A2" => d.angleDiff <= A2_MAX_ANGLE)
         /\ (v = "V" => d.angleDiff < V_COLLECT_ANGLE) ) => d.canCollect

\* a frame decision d of View.jsx counts a distance equal to MAX_DISTANCE or
\* to COLLECTION_DISTANCE as outside
ExclusiveFrame(flag, d) ==
    /\ d.distance = MAX_DISTANCE => ~flag
    /\ d.distance = COLLECTION_DISTANCE => ~d.canCollect

\* C12 as stated: every comparison counts a distance equal to its threshold
\* as inside: the visible and collectible decisions of a frame, and the
\* map's gate, which refuses entry only if every coin is farther than 500 m.
C12_BoundaryInclusive ==
    [][ /\ \A fd \in FrameDecisions' : InclusiveFrame(view', fd[1], fd[2])
        /\ (mode = "map" /\ alert' = "tooFarAny") =>
              \A k \in DOMAIN COINS :
                 MapDistance(mapUserLocation, COINS[k]) > MAP_AR_DISTANCE ]_vars

\* C12 (amended): each implementation treats a distance equal to a threshold
\* the same way in all its comparisons: as inside (<=) in PokemonGoStyleAR,
\* the two ARView copies and UpdateView; as outside (<) in View.jsx and in
\* both gates of CoinMap, which enter AR only for a coin nearer than 500 m.
C12_BoundaryConsistent ==
    [][ /\ \A fd \in FrameDecisions' :
              IF view' = "V" THEN ExclusiveFrame(fd[1], fd[2])
              ELSE InclusiveFrame(view', fd[1], fd[2])
        /\ (mode = "map" /\ mode' = "ar") =>
              /\ mapUserLocation # NULL
              /\ MapDistance(mapUserLocation, selectedCoin') < MAP_AR_DISTANCE ]_vars

\* C12 is met: the map refused entry with the nearest coin exactly 500 m away
C12_RefusedAtThreshold ==
    /\ mode = "map"
    /\ alert = "tooFarAny"
    /\ mapUserLocation # NULL
    /\ \E k \in DOMAIN COINS :
          MapDistance(mapUserLocation, COINS[k]) = MAP_AR_DISTANCE

\* C13: the visible and collectible values a frame decides are a function of
\* the latest location, heading and coin alone: a frame that follows another
\* frame of the same loop directly, with the same location, heading and coin,
\* decides the same visible and collectible values.
C13_DecisionPure ==
    [][ ( /\ view \in SingleCoinViews
          /\ FrameComputed
          /\ FrameComputed'
          /\ lastFrame'.run = lastFrame.run
          /\ lastFrame'.heading = lastFrame.heading )
        => /\ lastFrame'.visible = lastFrame.visible
           /\ lastFrame'.canCollect = lastFrame.canCollect ]_vars

\* no model load of the single-coin view has succeeded
NoModelLoaded ==
    /\ view \in SingleCoinViews
    /\ \A i \in DOMAIN runs : runs[i].load # "done"

\* the step is the failure of the model load of run i
LoadFails(i) ==
    /\ i \in DOMAIN runs
    /\ i \in DOMAIN runs'
    /\ runs[i].load = "pending"
    /\ runs'[i].load = "failed"

\* the step is the failure of the load of spawn id's model
SpawnLoadFails(id) ==
    /\ view = "PG"
    /\ loads[id].live = "pending"
    /\ loads'[id].live = "failed"

\* one call of animate of run i
AnimateOf(i) ==
    A1_animate(i) \/ A2_animate(i) \/ U_animate(i) \/ V_animate(i)

\* C14: a failed model load is logged only.  While no load of a single-coin
\* view has succeeded the model reference is null and no model is visible;
\* the failure of a load changes nothing but the status of that load; and a
\* frame loop that was running keeps running after it.
C14_LoadFailureLoggedOnly ==
    [][ /\ NoModelLoaded' => (modelRef' = 0 /\ ~modelVisible')
        /\ \A i \in DOMAIN runs :
              LoadFails(i) =>
                 /\ runs' = [runs EXCEPT ![i].load = "failed"]
                 /\ UNCHANGED <<appVars, view, ios, stateVars, canCollect,
                                canCollectRef, modelRef, modelVisible,
                                modelPos, camera, animationFrameIdRef,
                                prevLocationRef, frames, spawnVars,
                                sensorVars, events>>
        /\ \A id \in SpawnIds :
              SpawnLoadFails(id) =>
                 /\ loads' = [loads EXCEPT ![id].live = "failed"]
                 /\ UNCHANGED <<appVars, view, ios, stateVars, sceneVars,
                                spawnPoints, closestSpawn, spawnModelsRef,
                                sensorVars, events>>
        /\ \A i \in DOMAIN runs :
              (NoModelLoaded /\ runs[i].load = "failed" /\ runs[i].raf)
                 => ENABLED AnimateOf(i) ]_vars

\* C14 is met: the load of the first ARView copy's model failed and a frame
\* ran after the failure, with no model to show
C14_FrameAfterFailure ==
    /\ view = "A1"
    /\ NoModelLoaded
    /\ \E i \in DOMAIN runs : runs[i].load = "failed" /\ runs[i].raf
    /\ lastFrame # NULL
    /\ userLocationRef # NULL
    /\ modelRef = 0

\* C15: the coin the scan of 'Enter AR View' selects, and hands to onEnterAR
\* when it passes the gate, is a nearest coin of COINS: no coin is nearer to
\* the user location, and every coin earlier in the list is farther.
C15_NearestCoinEarliest ==
    Called("Map_closest") =>
        LET D(j) == MapDistance(call.loc, COINS[j])
            k    == call.result[1]
        IN  /\ k \in DOMAIN COINS
            /\ call.result[2] = D(k)
            /\ \A j \in DOMAIN COINS : D(k) <= D(j)
            /\ \A j \in DOMAIN COINS : j < k => D(j) > D(k)
            /\ call.entered <=> D(k) < MAP_AR_DISTANCE

\* C15 is met: two coins are nearest at the same distance, the earlier is
\* selected and passes the gate
C15_TieToEarliest ==
    /\ Called("Map_closest")
    /\ call.entered
    /\ \E j \in DOMAIN COINS :
          /\ j > call.result[1]
          /\ MapDistance(call.loc, COINS[j]) = call.result[2]

\* a stored heading: none yet, or degrees in [0, 360)
HeadingInRange(h) == h = NULL \/ (h.num >= 0 /\ h.num < 360)

\* C16: with compass headings, alphas and GPS headings in [0, 360), the
\* heading a view stores, smoothed or not, is null or within [0, 360).
C16_HeadingInRange ==
    /\ HeadingInRange(userHeading)
    /\ HeadingInRange(userHeadingRef)

\* C16 is met: the stored heading is a smoothed value between two samples
C16_SmoothedHeading ==
    /\ view \in { "PG", "V" }
    /\ userHeading # NULL
    /\ userHeading.num \notin { 0, 90, 180, 270 }

\* C17: every copy of the smoothing helper returns the next value unchanged
\* when the previous value is null and also when it is NaN, whatever the
\* factor.
C17_ColdStartBypass ==
    (Called("smoothValue") /\ call.prev \in { NULL, NaN }) =>
        call.result = call.next

\* x lies between a and b inclusive
Between(x, a, b) == Min(a, b) <= x /\ x <= Max(a, b)

\* C18: for a numeric previous value and a factor in [0, 1], the smoothed
\* value lies between the previous and the next value inclusive, so it is no
\* farther from next than prev was, and smoothing the result once more with
\* the same next value does not move away from next.
C18_SmoothBoundedMonotone ==
    (Called("smoothValue") /\ call.prev \in SmoothSamples) =>
        /\ Between(call.result.num, call.prev.num, call.next.num)
        /\ Abs(call.next.num - call.result.num)
              <= Abs(call.next.num - call.prev.num)
        /\ Abs(call.next.num - call.again.num)
              <= Abs(call.next.num - call.result.num)

\* speeds of the frames applied, in metres per second
FrameSpeeds ==
    { getSpeed(c, p, dt) : c \in SpeedPlaces, p \in SpeedPlaces \cup { NULL },
                           dt \in FrameDeltas }

\* C19: the smoothing factor of a frame is within [0.05, 0.5] for every pair
\* of consecutive locations and every elapsed time, zero and negative ones
\* included, and a lower speed never gives a higher factor.
C19_FactorClamped ==
    Called("smoothingFactor") =>
        /\ call.factor >= 5
        /\ call.factor <= 50
        /\ \A s \in FrameSpeeds :
              s <= call.speed => A2_smoothingFactor(s) <= call.factor

\* the circular distance of two angles of [0, 360): min(d, 360 - d)
CircularDistance(bearing, heading) ==
    Min(Abs(bearing - heading), 360 - Abs(bearing - heading))

\* C20 as stated: the angleDiff every view computes for a bearing and a
\* heading in [0, 360) is min(d, 360 - d) with d = |bearing - heading|, and
\* within [0, 180].
C20_AngleDiffFolded ==
    Called("angleDiff") =>
        /\ call.result = CircularDistance(call.bearing, call.heading)
        /\ call.result >= 0
        /\ call.result <= 180

\* C20 (amended): PokemonGoStyleAR, both ARView copies and UpdateView compute
\* min(d, 360 - d), within [0, 180]; View.jsx computes the signed difference,
\* within [-180, 180), whose magnitude, the value it compares, is
\* min(d, 360 - d).
C20_AngleDiffMagnitude ==
    Called("angleDiff") =>
        /\ Abs(call.result) = CircularDistance(call.bearing, call.heading)
        /\ Abs(call.result) <= 180
        /\ IF call.copy = "View" THEN call.result >= -180 /\ call.result < 180
           ELSE call.result >= 0

\* C20 is met: View.jsx computed a negative difference across the wrap at 360
C20_SignedAcrossWrap ==
    /\ Called("angleDiff")
    /\ call.copy = "View"
    /\ call.result < 0
    /\ Abs(call.bearing - call.heading) > 180

\* C21: calculateBearing returns a value in [0, 360) for every pair of
\* points: atan2 gives a value in [-180, 180], and (brng + 360) % 360 leaves
\* a non-negative one unchanged and adds 360 to a negative one.
C21_BearingInRange ==
    Called("calculateBearing") =>
        /\ call.brng >= -180
        /\ call.brng <= 180
        /\ call.result >= 0
        /\ call.result < 360
        /\ call.result = IF call.brng < 0 THEN call.brng + 360 ELSE call.brng

\* C21 is met: a bearing to the south-west, where atan2 is negative
C21_WestwardBearing ==
    /\ Called("calculateBearing")
    /\ call.q.longitude < call.p.longitude
    /\ call.q.latitude < call.p.latitude
    /\ call.brng < 0
    /\ call.result > 180

C23_YawApproachesHeading ==
    [][ ( /\ view \in { "A2", "U" }
          /\ FrameComputed'
          /\ lastFrame'.heading # NULL )
        => Abs(lastFrame'.heading.num - camera'.yaw)
              <= Abs(lastFrame'.heading.num - camera.yaw) ]_vars

\* the step is a click on the collect button of the mounted single-coin view
HandleCollect ==
    A1_handleCollect \/ A2_handleCollect \/ U_handleCollect \/ V_handleCollect

\* the collectible flag handleCollect reads: the ref, in View.jsx the state
CollectFlag == IF view = "V" THEN canCollect ELSE canCollectRef

\* a collection succeeds only with the flag true, returns to the map with the
\* selection cleared, and the flag becomes true only in a frame that decided so
CollectOnlyWhenAllowed ==
    /\ alert' = "collected" =>
          /\ view \in SingleCoinViews
          /\ CollectFlag
          /\ mode = "ar"
          /\ mode' = "map"
          /\ selectedCoin' = NULL
    /\ (CollectFlag' /\ ~CollectFlag) =>
          (FrameComputed' /\ lastFrame'.canCollect)
    /\ (HandleCollect /\ CollectFlag) => alert' = "collected"

\* C24 as stated: handleCollect succeeds only if the flag of the latest frame
\* is true; otherwise it shows a refusal and leaves mode and coin unchanged.
C24_CollectOrRefuse ==
    [][ /\ CollectOnlyWhenAllowed
        /\ (HandleCollect /\ ~CollectFlag) =>
              (alert' = "refused" /\ UNCHANGED <<mode, selectedCoin>>) ]_vars

\* C24 (amended): handleCollect succeeds only if the flag of the latest frame
\* is true; otherwise it leaves mode and coin unchanged, showing a refusal in
\* the ARView copies and UpdateView and nothing in View.jsx.
C24_CollectOnlyWhenAllowed ==
    [][ /\ CollectOnlyWhenAllowed
        /\ (HandleCollect /\ ~CollectFlag) =>
              /\ alert' = IF view = "V" THEN "none" ELSE "refused"
              /\ UNCHANGED <<mode, selectedCoin>> ]_vars

\* C24 is met: the first ARView copy collected the coin
C24_Collected ==
    /\ view = "A1"
    /\ alert = "collected"
    /\ canCollectRef
    /\ mode = "map"

\* C25: the mode is 'ar' exactly when a coin is selected and 'map' exactly
\* when none is, so no AR view is rendered with a null coin; and after a
\* collection the app is in map mode with the selection cleared.
C25_ModeMatchesSelection ==
    /\ mode \in { "map", "ar" }
    /\ mode = "ar" <=> selectedCoin # NULL
    /\ mode = "map" <=> selectedCoin = NULL
    /\ mode = "ar" => \E k \in DOMAIN COINS : selectedCoin = COINS[k]
    /\ alert = "collected" => (mode = "map" /\ selectedCoin = NULL)

\* C25 is met: UpdateView collected its coin and the app is back on the map
C25_BackOnMap ==
    /\ view = "U"
    /\ mounts = 1
    /\ alert = "collected"
    /\ mode = "map"
    /\ selectedCoin = NULL

\* runs of the scene effect with a frame request pending
PendingLoops == { i \in DOMAIN runs : runs[i].raf }

\* C26: at most one requestAnimationFrame chain is active per AR view, and
\* the id in the animation-frame ref is the id of its pending frame.
C26_SingleRenderLoop ==
    /\ Cardinality(PendingLoops) <= 1
    /\ \A i \in PendingLoops : animationFrameIdRef = i

\* C27: every model in the spawn model registry of PokemonGoStyleAR belongs
\* to the scene of the most recent run of the scene effect.
C27_RegistryOfLiveScene ==
    view = "PG" =>
        \A id \in SpawnIds :
           spawnModelsRef[id] # NULL => spawnModelsRef[id].live


\* a step of PokemonGoStyleAR that sets the caught flag of spawn id
Catches(id) ==
    /\ view = "PG"
    /\ id <= Len(spawnPoints)
    /\ alert' = "caught"
    /\ ~spawnPoints[id].caught
    /\ spawnPoints'[id].caught

ClosestPanelShown ==
    /\ view = "PG"
    /\ Mounted
    /\ closestSpawn # NULL
    /\ ~closestSpawn.caught

\* C29: whenever the closest-spawn panel of PokemonGoStyleAR is displayed,
\* the spawn id it shows is that of a spawn that is uncaught in spawnPoints.
C29_PanelSpawnUncaught ==
    ClosestPanelShown =>
        /\ closestSpawn.id <= Len(spawnPoints)
        /\ ~spawnPoints[closestSpawn.id].caught


\* the frame loop of some run of the scene effect was started: setupCamera
\* got past getUserMedia and video.play() and called animate
LoopStarted == \E i \in DOMAIN runs : runs[i].cam = "started"

\* C30: in every single-coin AR view the collectible flag (state and ref) is
\* true only if the model has finished loading, the camera setup succeeded
\* and a GPS position has been received; it is false while one is missing.
C30_CollectibleNeedsInputs ==
    (view \in SingleCoinViews /\ (canCollect \/ canCollectRef)) =>
        /\ modelRef # 0
        /\ LoopStarted
        /\ userLocationRef # NULL

\* C30 is met: a frame of a single-coin view made the coin collectible
C30_Collectible ==
    /\ view \in SingleCoinViews
    /\ Mounted
    /\ canCollect
    /\ canCollectRef
    /\ FrameComputed
    /\ lastFrame.canCollect

=============================================================================
